---- MODULE Spec2Model ----
(***************************************************************************)
(* Raiku deterministic battle simulator: the seeded stream generator       *)
(* (seedRng.ts), the combat resolver and the battle state machine          *)
(* (battleEngine.ts), modelled as a state machine.                         *)
(*                                                                         *)
(* Numbers.  A 32-bit word is a pair <<hi, lo>> of 16-bit limbs, because   *)
(* the bit operations of the generator work on the full 32-bit pattern.   *)
(* A stream value rand() = u / 2^32 is kept as its numerator u (a word).   *)
(* Template numbers are kept exactly: attack, defense, speed and maxHp are *)
(* integers, skillMultiplier is given in tenths and critChance in          *)
(* hundredths; products are evaluated exactly over the rationals.          *)
(***************************************************************************)
EXTENDS Integers, Sequences, FiniteSets, TLC

(***************************************************************************)
(* 32-bit word arithmetic (the JavaScript int32 operators)                 *)
(***************************************************************************)
Pow2(n) == 2 ^ n

Limb == 65536

\* the 16-bit limbs and the 32-bit words
Limbs == 0..(Limb - 1)
Words == Limbs \X Limbs

\* bitwise exclusive or of two n-bit naturals
XorN[a \in Nat, b \in Nat, n \in Nat] ==
  IF n = 0 THEN 0
  ELSE ((a + b) % 2) + 2 * XorN[a \div 2, b \div 2, n - 1]

\* bitwise or of two n-bit naturals
OrN[a \in Nat, b \in Nat, n \in Nat] ==
  IF n = 0 THEN 0
  ELSE (IF a % 2 = 1 \/ b % 2 = 1 THEN 1 ELSE 0) + 2 * OrN[a \div 2, b \div 2, n - 1]

\* x ^ y
Xor32[x \in Words, y \in Words] == <<XorN[x[1], y[1], 16], XorN[x[2], y[2], 16]>>

\* x | y
Or32[x \in Words, y \in Words] == <<OrN[x[1], y[1], 16], OrN[x[2], y[2], 16]>>

\* x >>> n, 0 < n < 32
Shr32[x \in Words, n \in 1..31] ==
  IF n >= 16 THEN <<0, x[1] \div Pow2(n - 16)>>
  ELSE <<x[1] \div Pow2(n), (x[2] \div Pow2(n)) + (x[1] % Pow2(n)) * Pow2(16 - n)>>

\* x << n, 0 < n < 16
Shl32[x \in Words, n \in 1..15] ==
  <<((x[1] * Pow2(n)) % Limb) + (x[2] \div Pow2(16 - n)), (x[2] * Pow2(n)) % Limb>>

\* (x + y) mod 2^32
Add32[x \in Words, y \in Words] ==
  <<(x[1] + y[1] + (x[2] + y[2]) \div Limb) % Limb, (x[2] + y[2]) % Limb>>

\* the full 32-bit product of two 16-bit limbs, as a word
Mul16[a \in Limbs, b \in Limbs] ==
  LET p1 == (a \div 256) * b
      p0 == (a % 256) * b
      s  == (p1 % 256) * 256 + p0
  IN  <<(p1 \div 256) + (s \div Limb), s % Limb>>

\* the low 32 bits of ll + (lh + hl) * 2^16
ImulSum[ll \in Words, lh \in Words, hl \in Words] ==
  <<(ll[1] + lh[2] + hl[2]) % Limb, ll[2]>>

\* Math.imul(x, y): the low 32 bits of the product
Imul[x \in Words, y \in Words] ==
  ImulSum[Mul16[x[2], y[2]], Mul16[x[2], y[1]], Mul16[x[1], y[2]]]

\* a small natural as a word
Word(n) == <<n \div Limb, n % Limb>>

(***************************************************************************)
(* seedRng.ts: xmur3 and mulberry32                                        *)
(***************************************************************************)
\* const v = e; ... : F applied to the value of e
Then(e, F(_)) == CHOOSE r \in {F(v) : v \in {e}} : TRUE

\* 1779033703, 3432918353, 2246822507, 3266489909 and 0x6D2B79F5 as words
XmurInit == <<27145, 58983>>
XmurMul1 == <<52382, 11601>>
XmurMul2 == <<34283, 51819>>
XmurMul3 == <<49842, 44597>>
MulberryInc == <<27947, 31221>>

RECURSIVE XmurFold(_, _, _)
\* the loop of xmur3 over the characters str[i..]:
\* h = Math.imul(h ^ str.charCodeAt(i), 3432918353); h = (h << 13) | (h >>> 19)
XmurFold(h, str, i) ==
  IF i > Len(str) THEN h
  ELSE Then(Imul[Xor32[h, Word(str[i])], XmurMul1], LAMBDA m :
       Then(Or32[Shl32[m, 13], Shr32[m, 19]], LAMBDA h2 :
       XmurFold(h2, str, i + 1)))

\* xmur3(str)(): the first value of the seed function (a seed is the
\* sequence of its character codes)
Xmur3(str) ==
  Then(XmurFold(Xor32[XmurInit, Word(Len(str))], str, 1), LAMBDA h0 :
  Then(Imul[Xor32[h0, Shr32[h0, 16]], XmurMul2], LAMBDA h1 :
  Then(Imul[Xor32[h1, Shr32[h1, 13]], XmurMul3], LAMBDA h2 :
  Xor32[h2, Shr32[h2, 16]])))

\* The generator state `a` is a JavaScript number that `a += 0x6D2B79F5`
\* never wraps: <<top, hi, lo>> stands for top * 2^32 + hi * 2^16 + lo.
MulberryAdvance(a) ==
  LET lo == a[3] + MulberryInc[2]
      hi == a[2] + MulberryInc[1] + lo \div Limb
  IN  <<a[1] + hi \div Limb, hi % Limb, lo % Limb>>

\* ToInt32 of the state: its low 32 bits
Low32(a) == <<a[2], a[3]>>

\* the numerator u of the value rand() = u / 4294967296 drawn in state a
\* (a is the state after the increment)
MulberryOut(a) ==
  Then(Low32(a), LAMBDA t0 :
  Then(Imul[Xor32[t0, Shr32[t0, 15]], Or32[t0, Word(1)]], LAMBDA t1 :
  Then(Xor32[t1, Add32[t1, Imul[Xor32[t1, Shr32[t1, 7]], Or32[t1, Word(61)]]]],
       LAMBDA t2 :
  Xor32[t2, Shr32[t2, 14]])))

\* createDeterministicRng(seed): the generator state after construction
createDeterministicRng(seed) ==
  Then(Xmur3(seed), LAMBDA s : <<0, s[1], s[2]>>)

\* rng.next(): [value |-> numerator of the value drawn, rng |-> new state]
RngNext(a) ==
  Then(MulberryAdvance(a), LAMBDA b : [value |-> MulberryOut(b), rng |-> b])

\* floor((u / 2^32) * m) for a word u and 0 <= m < 2^15
MulFloor(u, m) == (u[1] * m + (u[2] * m) \div Limb) \div Limb

\* u / 2^32 < num / den, for 0 <= num and 0 < den <= 100
FracLess(u, num, den) == den * u[1] + (den * u[2]) \div Limb < num * Limb

\* nextInt rounding to the nearest integer: Math.round(rand() * maxExclusive)
RngNextIntRound(a, maxExclusive) ==
  IF maxExclusive <= 0 THEN [value |-> 0, rng |-> a]
  ELSE Then(RngNext(a), LAMBDA d :
       [value |-> (MulFloor(d.value, 2 * maxExclusive) + 1) \div 2, rng |-> d.rng])

\* rng.nextInt(maxExclusive)
RngNextInt(a, maxExclusive) ==
  IF maxExclusive <= 0 THEN [value |-> 0, rng |-> a]
  ELSE Then(RngNext(a), LAMBDA d :
       [value |-> MulFloor(d.value, maxExclusive), rng |-> d.rng])

(***************************************************************************)
(* Inputs: templates (types.ts Character), seeds, round limits             *)
(***************************************************************************)
\* Character: skillMultiplier in tenths (skill10), critChance in hundredths
\* (crit100)
Template(id, name, maxHp, attack, defense, speed, crit100, skill10) ==
  [id |-> id, name |-> name, maxHp |-> maxHp, attack |-> attack,
   defense |-> defense, speed |-> speed, crit100 |-> crit100, skill10 |-> skill10]

Knight == Template("knight", "Aurora Knight", 4, 3, 2, 2, 15, 14)
Archer == Template("archer", "Stellar Archer", 2, 4, 0, 3, 25, 15)
Orc    == Template("orc", "Raiku Orc Brute", 5, 2, 2, 2, 12, 13)
Mage   == Template("mage", "Deterministic Mage", 2, 5, 0, 3, 50, 16)

\* createDefaultTeams(): the default roster
DefaultTeamA ==
  <<Template("knight", "Aurora Knight", 120, 24, 16, 8, 15, 14),
    Template("archer", "Stellar Archer", 80, 28, 10, 14, 25, 15)>>

DefaultTeamB ==
  <<Template("orc", "Raiku Orc Brute", 140, 22, 14, 7, 12, 13),
    Template("mage", "Deterministic Mage", 70, 30, 8, 12, 20, 16)>>

\* the rosters simulateBattle is called with
TeamsA == {<<>>, <<Knight>>, <<Knight, Archer>>}
TeamsB == {<<>>, <<Orc>>, <<Orc, Mage>>}

\* bounds of the model
MaxSeedLen == 1
MaxRounds == 2

RECURSIVE SeedsOfLen(_)
\* seed strings over the characters "A", "B" (as character codes)
SeedsOfLen(n) ==
  IF n = 0 THEN {<<>>}
  ELSE {Append(s, c) : s \in SeedsOfLen(n - 1), c \in {65, 66}}

Seeds == UNION {SeedsOfLen(n) : n \in 0..MaxSeedLen}

\* the host's Array.prototype.sort: the comparison sequences it may perform
SortImpls == {"timsort", "insertion"}

(***************************************************************************)
(* battleEngine.ts: fighters, combat resolver                              *)
(***************************************************************************)
Max(a, b) == IF a >= b THEN a ELSE b

\* cloneTeams(teamA, teamB)
cloneTeams(tA, tB) ==
  [teamA |-> [k \in 1..Len(tA) |-> [base |-> tA[k], hp |-> tA[k].maxHp, alive |-> TRUE]],
   teamB |-> [k \in 1..Len(tB) |-> [base |-> tB[k], hp |-> tB[k].maxHp, alive |-> TRUE]]]

\* the snapshot taken from the template: hp is the fighter's maxHp
snapshotFighterFresh(f) ==
  [id |-> f.base.id, name |-> f.base.name, hp |-> f.base.maxHp,
   maxHp |-> f.base.maxHp, alive |-> f.alive]

\* snapshotFighter(f)
snapshotFighter(f) ==
  [id |-> f.base.id, name |-> f.base.name, hp |-> f.hp,
   maxHp |-> f.base.maxHp, alive |-> f.alive]

\* allDead(team)
allDead(team) == \A k \in 1..Len(team) : ~team[k].alive

RECURSIVE LivingFrom(_, _)
\* opponents.filter((o) => o.alive), as the positions of the living
\* fighters in team order
LivingFrom(team, k) ==
  IF k > Len(team) THEN <<>>
  ELSE IF team[k].alive THEN <<k>> \o LivingFrom(team, k + 1)
       ELSE LivingFrom(team, k + 1)

Living(team) == LivingFrom(team, 1)

\* chooseTarget without the filter: any opponent, living or dead
chooseTargetAnyOpponent(a, opponents) ==
  Then([k \in 1..Len(opponents) |-> k], LAMBDA living :
    IF Len(living) = 0 THEN [target |-> 0, rng |-> a]
    ELSE Then(RngNextInt(a, Len(living)), LAMBDA idx :
         [target |-> living[idx.value + 1], rng |-> idx.rng]))

\* chooseTarget(rng.nextInt, opponents): target is the position of the
\* chosen fighter in opponents, 0 for null
chooseTarget(a, opponents) ==
  Then(Living(opponents), LAMBDA living :
    IF Len(living) = 0 THEN [target |-> 0, rng |-> a]
    ELSE Then(RngNextInt(a, Len(living)), LAMBDA idx :
         [target |-> living[idx.value + 1], rng |-> idx.rng]))

\* base damage in halves: 2 * Math.max(1, attack - defense * 0.5)
Base2(attacker, defender) ==
  Max(2, 2 * attacker.base.attack - defender.base.defense)

\* Math.floor(base * skillMultiplier * variance [* 1.7]) where
\* variance = 0.9 + (u / 2^32) * 0.2: with K = base2 * skill10 * crit10 the
\* product is K * (9 + 2u / 2^32) / 2000
FloorDamage(base2, skill10, crit10, u) ==
  LET K == base2 * skill10 * crit10
  IN  (9 * K + MulFloor(u, 2 * K)) \div 2000

\* the damage without the clamp to 1: Math.floor(dmg)
FinalDamageNoClamp(floored) == floored

\* Math.max(1, Math.floor(dmg))
FinalDamage(floored) == Max(1, floored)

\* DamageFromRolls with the first two rolls taken in the other order: the
\* critical decision from the first value, the skill decision from the second
DamageFromRollsSwapped(rolls, attacker, defender) ==
  LET base2    == Base2(attacker, defender)
      useSkill == FracLess(rolls[2], 35, 100)
      isCrit   == FracLess(rolls[1], attacker.base.crit100, 100)
      skill10  == IF useSkill THEN attacker.base.skill10 ELSE 10
      floored  == FloorDamage(base2, skill10, IF isCrit THEN 17 ELSE 10, rolls[3])
  IN  [damage |-> FinalDamage(floored), isCrit |-> isCrit]

\* lines 105-118 on the three values drawn (skill roll, crit roll, variance
\* roll, as numerators of u / 2^32): computeDamage without the generator
DamageFromRolls(rolls, attacker, defender) ==
  LET base2    == Base2(attacker, defender)
      useSkill == FracLess(rolls[1], 35, 100)
      isCrit   == FracLess(rolls[2], attacker.base.crit100, 100)
      skill10  == IF useSkill THEN attacker.base.skill10 ELSE 10
      floored  == FloorDamage(base2, skill10, IF isCrit THEN 17 ELSE 10, rolls[3])
  IN  [damage |-> FinalDamage(floored), isCrit |-> isCrit]

\* computeDamage drawing the variance roll first: rngNext() of line 110
\* called before those of lines 106 and 107
computeDamageVarianceFirst(a, attacker, defender) ==
  Then(RngNext(a), LAMBDA varianceRoll :
  Then(RngNext(varianceRoll.rng), LAMBDA skillRoll :
  Then(RngNext(skillRoll.rng), LAMBDA critRoll :
  Then(DamageFromRolls(<<skillRoll.value, critRoll.value, varianceRoll.value>>,
                       attacker, defender), LAMBDA d :
  [damage |-> d.damage, isCrit |-> d.isCrit, rng |-> critRoll.rng]))))

\* computeDamage(rng.next, attacker, defender): the three calls of
\* rngNext() of lines 106, 107 and 110, in this order
computeDamage(a, attacker, defender) ==
  Then(RngNext(a), LAMBDA skillRoll :
  Then(RngNext(skillRoll.rng), LAMBDA critRoll :
  Then(RngNext(critRoll.rng), LAMBDA varianceRoll :
  Then(DamageFromRolls(<<skillRoll.value, critRoll.value, varianceRoll.value>>,
                       attacker, defender), LAMBDA d :
  [damage |-> d.damage, isCrit |-> d.isCrit, rng |-> varianceRoll.rng]))))

(***************************************************************************)
(* Turn order: fighters.sort(comparator)                                   *)
(***************************************************************************)
\* the fighter an entry {fighter, team} of the turn order refers to
FighterOf(tm, e) == IF e.team = "A" THEN tm.teamA[e.idx] ELSE tm.teamB[e.idx]

\* the sign of u - v for two words
WordCmp(u, v) ==
  IF u[1] # v[1] THEN (IF u[1] > v[1] THEN 1 ELSE -1)
  ELSE IF u[2] # v[2] THEN (IF u[2] > v[2] THEN 1 ELSE -1)
  ELSE 0

\* the comparator with the speeds subtracted the other way round:
\* a.speed - b.speed
comparefnAscending(tm, ea, eb, a) ==
  IF FighterOf(tm, ea).base.speed # FighterOf(tm, eb).base.speed
  THEN [order |-> FighterOf(tm, ea).base.speed - FighterOf(tm, eb).base.speed,
        rng |-> a]
  ELSE Then(RngNext(a), LAMBDA rollA :
       Then(RngNext(rollA.rng), LAMBDA rollB :
       [order |-> WordCmp(rollB.value, rollA.value), rng |-> rollB.rng]))

\* the comparator (a, b) => ...: [order |-> its sign, rng |-> state after]
comparefn(tm, ea, eb, a) ==
  IF FighterOf(tm, ea).base.speed # FighterOf(tm, eb).base.speed
  THEN [order |-> FighterOf(tm, eb).base.speed - FighterOf(tm, ea).base.speed,
        rng |-> a]
  ELSE Then(RngNext(a), LAMBDA rollA :
       Then(RngNext(rollA.rng), LAMBDA rollB :
       [order |-> WordCmp(rollB.value, rollA.value), rng |-> rollB.rng]))

\* arr with position p set to v
SetAt(arr, p, v) == [arr EXCEPT ![p] = v]

\* The sort routines work on st = [arr |-> the array, rng |-> the state of
\* the generator the comparator draws from].

RECURSIVE InsertionInner(_, _, _, _)
\* insertion sort, inner loop: for (j = i - 1; j >= from; j--)
InsertionInner(tm, element, j, st) ==
  IF j < 1 THEN [arr |-> SetAt(st.arr, j + 1, element), rng |-> st.rng]
  ELSE Then(comparefn(tm, st.arr[j], element, st.rng), LAMBDA c :
       IF c.order > 0
       THEN Then([arr |-> SetAt(st.arr, j + 1, st.arr[j]), rng |-> c.rng],
                 LAMBDA st2 : InsertionInner(tm, element, j - 1, st2))
       ELSE [arr |-> SetAt(st.arr, j + 1, element), rng |-> c.rng])

RECURSIVE InsertionOuter(_, _, _)
\* insertion sort, outer loop: for (i = from + 1; i < to; i++)
InsertionOuter(tm, i, st) ==
  IF i > Len(st.arr) THEN st
  ELSE Then(InsertionInner(tm, st.arr[i], i - 1, st), LAMBDA st2 :
       InsertionOuter(tm, i + 1, st2))

\* a host that sorts short arrays by straight insertion
SortInsertion(tm, arr, a) == InsertionOuter(tm, 2, [arr |-> arr, rng |-> a])

RECURSIVE CountRun(_, _, _, _)
\* TimSort, CountAndMakeRun: the loop extending the initial run; idx is
\* the position examined, [len |-> run length, rng |-> state after]
CountRun(tm, idx, isDescending, st) ==
  IF idx > Len(st.arr) THEN [len |-> idx - 1, rng |-> st.rng]
  ELSE Then(comparefn(tm, st.arr[idx], st.arr[idx - 1], st.rng), LAMBDA c :
       IF (isDescending /\ c.order >= 0) \/ (~isDescending /\ c.order < 0)
       THEN [len |-> idx - 1, rng |-> c.rng]
       ELSE Then([arr |-> st.arr, rng |-> c.rng], LAMBDA st2 :
            CountRun(tm, idx + 1, isDescending, st2)))

\* arr with its first n positions reversed
ReverseRange(arr, n) ==
  [p \in 1..Len(arr) |-> IF p <= n THEN arr[n + 1 - p] ELSE arr[p]]

\* TimSort, CountAndMakeRun(0, length), for length >= 2: the array with
\* its initial run made ascending, and the length of the run
CountAndMakeRun(tm, st) ==
  Then(comparefn(tm, st.arr[2], st.arr[1], st.rng), LAMBDA c :
  Then(CountRun(tm, 3, c.order < 0, [arr |-> st.arr, rng |-> c.rng]), LAMBDA r :
  [arr |-> IF c.order < 0 THEN ReverseRange(st.arr, r.len) ELSE st.arr,
   len |-> r.len, rng |-> r.rng]))

\* left + ((right - left) >> 1)
Mid(left, right) == left + ((right - left) \div 2)

RECURSIVE BinarySearch(_, _, _, _, _)
\* TimSort, BinaryInsertionSort: the binary search for the pivot's place
\* among the positions [left, right) (counted from 0)
BinarySearch(tm, pivot, left, right, st) ==
  IF left >= right THEN [left |-> left, rng |-> st.rng]
  ELSE Then(Mid(left, right), LAMBDA mid :
       Then(comparefn(tm, pivot, st.arr[mid + 1], st.rng), LAMBDA c :
       Then([arr |-> st.arr, rng |-> c.rng], LAMBDA st2 :
       IF c.order < 0 THEN BinarySearch(tm, pivot, left, mid, st2)
       ELSE BinarySearch(tm, pivot, mid + 1, right, st2))))

\* arr with the element at position from (from 0) moved to position to <= from
MoveTo(arr, from, to) ==
  [p \in 1..Len(arr) |->
     IF p - 1 < to \/ p - 1 > from THEN arr[p]
     ELSE IF p - 1 = to THEN arr[from + 1] ELSE arr[p - 1]]

RECURSIVE BinaryInsertionSort(_, _, _)
\* TimSort, BinaryInsertionSort(0, start, length)
BinaryInsertionSort(tm, start, st) ==
  IF start >= Len(st.arr) THEN st
  ELSE Then(BinarySearch(tm, st.arr[start + 1], 0, start, st), LAMBDA s :
       Then([arr |-> MoveTo(st.arr, start, s.left), rng |-> s.rng], LAMBDA st2 :
       BinaryInsertionSort(tm, start + 1, st2)))

\* a host that sorts with TimSort (arrays shorter than 64: one run, extended
\* by binary insertion)
SortTim(tm, arr, a) ==
  IF Len(arr) < 2 THEN [arr |-> arr, rng |-> a]
  ELSE Then(CountAndMakeRun(tm, [arr |-> arr, rng |-> a]), LAMBDA r :
       BinaryInsertionSort(tm, r.len, [arr |-> r.arr, rng |-> r.rng]))

\* fighters.sort(comparator) on the host impl
SortFighters(impl, tm, arr, a) ==
  IF impl = "timsort" THEN SortTim(tm, arr, a) ELSE SortInsertion(tm, arr, a)

\* the living fighters of both teams, team A first, each in team order
CollectFighters(tm) ==
  [k \in 1..Len(Living(tm.teamA)) |-> [team |-> "A", idx |-> Living(tm.teamA)[k]]]
  \o [k \in 1..Len(Living(tm.teamB)) |-> [team |-> "B", idx |-> Living(tm.teamB)[k]]]

(***************************************************************************)
(* Trace commitment                                                        *)
(***************************************************************************)
\* JSON.stringify of one event: its fields in the order the object literal
\* lists them
StringifyEvent(e) ==
  <<"round", e.round, "actorTeam", e.actorTeam,
    "actor", <<"id", e.actor.id, "name", e.actor.name,
               "hpBefore", e.actor.hpBefore, "hpAfter", e.actor.hpAfter>>,
    "target", <<"id", e.target.id, "name", e.target.name,
                "hpBefore", e.target.hpBefore, "hpAfter", e.target.hpAfter>>,
    "damage", e.damage, "isCrit", e.isCrit, "description", e.description>>

\* JSON.stringify(log)
JsonStringify(lg) == [k \in 1..Len(lg) |-> StringifyEvent(lg[k])]

\* crypto.createHash("sha256").update(json).digest("hex"): the library hash
\* is kept symbolic, a collision-free function of the bytes hashed
Sha256Hex(json) == [sha256 |-> json]

\* the digest of the log without its last event: the digest taken before
\* the last log.push
computeLogHashStale(lg) ==
  Sha256Hex(JsonStringify(SubSeq(lg, 1, Max(0, Len(lg) - 1))))

\* computeLogHash(log)
computeLogHash(lg) == Sha256Hex(JsonStringify(lg))

(***************************************************************************)
(* State                                                                   *)
(***************************************************************************)
VARIABLES
  hostSort,   \* the sort implementation of the host the program runs on
  webSort,    \* the sort implementation of the browser web/app.js runs in
  engine,     \* engine[i]: whether call i is of src/battleEngine.ts
              \* ("node") or of web/app.js ("web")
  tmplA,      \* the caller's template list for team A
  tmplB,      \* the caller's template list for team B
  config,     \* config[i]: the BattleConfig of call i
  pc,         \* pc[i]: where call i of simulateBattle stands
  rng,        \* rng[i]: the state of the generator of call i
  teams,      \* teams[i]: the fighters of call i
  log,        \* log[i]: the battle log of call i
  round,      \* round[i]: the round counter of call i
  fighters,   \* fighters[i]: the turn order of the current round
  turn,       \* turn[i]: the position of the for-of loop in fighters[i]
  result,     \* result[i]: the BattleResult returned by call i
  probe       \* a function of the program applied on its own: its name,
              \* its arguments and, once applied, its result

vars == <<hostSort, webSort, engine, tmplA, tmplB, config, pc, rng, teams, log, round,
          fighters, turn, result, probe>>

\* the two calls of simulateBattle
Runs == {1, 2}

NoResult == [winner |-> "none"]

Configs == [seed : Seeds, maxRounds : 1..MaxRounds]

\* no function is applied on its own
NoProbe == [fn |-> "none", args |-> <<>>, out |-> <<>>]

\* every call is a call of src/battleEngine.ts, on the host of the program
NodeOnly ==
  /\ engine = [i \in Runs |-> "node"]
  /\ webSort = hostSort

\* the sort implementation call i runs on
SortOf(i) == IF engine[i] = "web" THEN webSort ELSE hostSort

\* the state before simulateBattle is called
Idle ==
  /\ pc = [i \in Runs |-> "idle"]
  /\ rng = [i \in Runs |-> <<0, 0, 0>>]
  /\ teams = [i \in Runs |-> [teamA |-> <<>>, teamB |-> <<>>]]
  /\ log = [i \in Runs |-> <<>>]
  /\ round = [i \in Runs |-> 0]
  /\ fighters = [i \in Runs |-> <<>>]
  /\ turn = [i \in Runs |-> 0]
  /\ result = [i \in Runs |-> NoResult]

Init ==
  /\ hostSort \in SortImpls
  /\ NodeOnly
  /\ tmplA \in TeamsA
  /\ tmplB \in TeamsB
  /\ config \in [Runs -> Configs]
  /\ probe = NoProbe
  /\ Idle

(***************************************************************************)
(* simulateBattle, step by step                                            *)
(***************************************************************************)
\* Call with one generator for the whole program: a later call goes on
\* with the generator the earlier call left behind
CallSharedGenerator(i) ==
  /\ pc[i] = "idle"
  /\ rng' = [rng EXCEPT ![i] =
        IF \E j \in Runs : pc[j] = "done"
        THEN rng[CHOOSE j \in Runs : pc[j] = "done"]
        ELSE createDeterministicRng(config[i].seed)]
  /\ teams' = [teams EXCEPT ![i] = cloneTeams(tmplA, tmplB)]
  /\ log' = [log EXCEPT ![i] = <<>>]
  /\ round' = [round EXCEPT ![i] = 0]
  /\ pc' = [pc EXCEPT ![i] = "loop"]
  /\ UNCHANGED <<probe, hostSort, webSort, engine, tmplA, tmplB, config, fighters, turn, result>>

\* Call with the generator kept in one variable of the module: a call
\* reseeds the generator every simulation draws from
CallModuleGenerator(i) ==
  /\ pc[i] = "idle"
  /\ rng' = [j \in Runs |-> createDeterministicRng(config[i].seed)]
  /\ teams' = [teams EXCEPT ![i] = cloneTeams(tmplA, tmplB)]
  /\ log' = [log EXCEPT ![i] = <<>>]
  /\ round' = [round EXCEPT ![i] = 0]
  /\ pc' = [pc EXCEPT ![i] = "loop"]
  /\ UNCHANGED <<probe, hostSort, webSort, engine, tmplA, tmplB, config, fighters, turn, result>>

\* lines 141-145: the generator, the fighters, the empty log, round = 0
Call(i) ==
  /\ pc[i] = "idle"
  /\ rng' = [rng EXCEPT ![i] = createDeterministicRng(config[i].seed)]
  /\ teams' = [teams EXCEPT ![i] = cloneTeams(tmplA, tmplB)]
  /\ log' = [log EXCEPT ![i] = <<>>]
  /\ round' = [round EXCEPT ![i] = 0]
  /\ pc' = [pc EXCEPT ![i] = "loop"]
  /\ UNCHANGED <<probe, hostSort, webSort, engine, tmplA, tmplB, config, fighters, turn, result>>

\* the loop test off by one: round <= config.maxRounds
LoopConditionOffByOne(i) == round[i] <= config[i].maxRounds

\* line 146: while (round < config.maxRounds)
LoopCondition(i) == round[i] < config[i].maxRounds

\* line 146: the loop test
LoopTest(i) ==
  /\ pc[i] = "loop"
  /\ pc' = [pc EXCEPT ![i] = IF LoopCondition(i) THEN "round" ELSE "resolve"]
  /\ UNCHANGED <<probe, hostSort, webSort, engine, tmplA, tmplB, config, rng, teams, log, round,
                 fighters, turn, result>>

\* lines 147-170: round++, the living fighters, the break on none, the
\* sorted turn order
RoundStart(i) ==
  /\ pc[i] = "round"
  /\ round' = [round EXCEPT ![i] = @ + 1]
  /\ \E fs \in {CollectFighters(teams[i])} :
       IF Len(fs) = 0
       THEN /\ pc' = [pc EXCEPT ![i] = "resolve"]
            /\ fighters' = [fighters EXCEPT ![i] = fs]
            /\ UNCHANGED <<rng, turn>>
       ELSE \E sorted \in {SortFighters(SortOf(i), teams[i], fs, rng[i])} :
            /\ pc' = [pc EXCEPT ![i] = "turns"]
            /\ fighters' = [fighters EXCEPT ![i] = sorted.arr]
            /\ rng' = [rng EXCEPT ![i] = sorted.rng]
            /\ turn' = [turn EXCEPT ![i] = 1]
  /\ UNCHANGED <<probe, hostSort, webSort, engine, tmplA, tmplB, config, teams, log, result>>

\* the ternary of line 174 the wrong way round: a fighter's own team
OtherSame(team) == team

\* the other team's tag
Other(team) == IF team = "A" THEN "B" ELSE "A"

\* the fighters of team `team`
TeamOf(tm, team) == IF team = "A" THEN tm.teamA ELSE tm.teamB

\* tm with team `team` replaced
WithTeam(tm, team, fs) ==
  IF team = "A" THEN [tm EXCEPT !.teamA = fs] ELSE [tm EXCEPT !.teamB = fs]

\* ApplyDamage without Math.max(0, ...)
ApplyDamageNoFloor(target, damage) ==
  [target EXCEPT !.hp = target.hp - damage,
                 !.alive = IF target.hp - damage = 0 THEN FALSE ELSE @]

\* ApplyDamage without lines 186-188
ApplyDamageKeepAlive(target, damage) ==
  [target EXCEPT !.hp = Max(0, target.hp - damage)]

\* lines 185-188: the target after taking the damage
ApplyDamage(target, damage) ==
  LET hp == Max(0, target.hp - damage)
  IN  [target EXCEPT !.hp = hp, !.alive = IF hp = 0 THEN FALSE ELSE @]

\* MakeEvent reading target.hp for hpBefore after the damage was applied
MakeEventLateRead(rnd, team, fighter, beforeHp, target, damage, isCrit) ==
  [round |-> rnd,
   actorTeam |-> team,
   actor |-> [id |-> fighter.base.id, name |-> fighter.base.name,
              hpBefore |-> fighter.hp, hpAfter |-> fighter.hp],
   target |-> [id |-> target.base.id, name |-> target.base.name,
               hpBefore |-> target.hp, hpAfter |-> target.hp],
   damage |-> damage,
   isCrit |-> isCrit,
   description |-> <<fighter.base.name, " from Team ", team, " hits ",
                     target.base.name, " for ", damage, " damage",
                     IF isCrit THEN " (CRIT)" ELSE "", ".">>]

\* lines 190-208: the event of one attack (target is the fighter after the
\* damage was applied)
MakeEvent(rnd, team, fighter, beforeHp, target, damage, isCrit) ==
  [round |-> rnd,
   actorTeam |-> team,
   actor |-> [id |-> fighter.base.id, name |-> fighter.base.name,
              hpBefore |-> fighter.hp, hpAfter |-> fighter.hp],
   target |-> [id |-> target.base.id, name |-> target.base.name,
               hpBefore |-> beforeHp, hpAfter |-> target.hp],
   damage |-> damage,
   isCrit |-> isCrit,
   description |-> <<fighter.base.name, " from Team ", team, " hits ",
                     target.base.name, " for ", damage, " damage",
                     IF isCrit THEN " (CRIT)" ELSE "", ".">>]

\* the event put at the front of the log: log.unshift(event)
PushFront(lg, event) == <<event>> \o lg

\* line 210: log.push(event)
Push(lg, event) == Append(lg, event)

\* line 173 left out: no turn is skipped
SkipsTurnNever(fighter) == FALSE

\* line 173: whether the turn of a fighter is skipped
SkipsTurn(fighter) == ~fighter.alive

\* the loop over the turn order without its step to the next entry: the
\* same entry has the next turn
AdvanceRepeat(i) ==
  /\ turn' = turn
  /\ pc' = pc

\* the position after one iteration of the for-of loop: the next entry, or
\* the end of the loop
Advance(i) ==
  /\ turn' = [turn EXCEPT ![i] = @ + 1]
  /\ pc' = [pc EXCEPT ![i] =
        IF turn[i] + 1 > Len(fighters[i]) THEN "roundEnd" ELSE "turns"]

\* lines 172-211: one iteration of the loop over the turn order
Turn(i) ==
  /\ pc[i] = "turns"
  /\ \E e \in {fighters[i][turn[i]]} :
     \E fighter \in {FighterOf(teams[i], e)} :
     \E opponents \in {TeamOf(teams[i], Other(e.team))} :
       IF SkipsTurn(fighter)
       THEN Advance(i) /\ UNCHANGED <<rng, teams, log>>
       ELSE IF allDead(opponents)
       THEN /\ pc' = [pc EXCEPT ![i] = "roundEnd"]
            /\ UNCHANGED <<turn, rng, teams, log>>
       ELSE \E choice \in {chooseTarget(rng[i], opponents)} :
            IF choice.target = 0
            THEN /\ Advance(i)
                 /\ rng' = [rng EXCEPT ![i] = choice.rng]
                 /\ UNCHANGED <<teams, log>>
            ELSE \E target \in {opponents[choice.target]} :
                 \E dmg \in {computeDamage(choice.rng, fighter, target)} :
                 \E hit \in {ApplyDamage(target, dmg.damage)} :
                   /\ Advance(i)
                   /\ rng' = [rng EXCEPT ![i] = dmg.rng]
                   /\ teams' = [teams EXCEPT ![i] =
                         WithTeam(@, Other(e.team),
                                  SetAt(opponents, choice.target, hit))]
                   /\ log' = [log EXCEPT ![i] =
                         Push(@, MakeEvent(round[i], e.team, fighter,
                                           target.hp, hit, dmg.damage,
                                           dmg.isCrit))]
  /\ UNCHANGED <<probe, hostSort, webSort, engine, tmplA, tmplB, config, round, fighters, result>>

\* RoundEnd without lines 213-217: the loop goes on whatever the teams are
RoundEndNoCheck(i) ==
  /\ pc[i] = "roundEnd"
  /\ pc' = [pc EXCEPT ![i] = "loop"]
  /\ UNCHANGED <<probe, hostSort, webSort, engine, tmplA, tmplB, config, rng, teams, log, round,
                 fighters, turn, result>>

\* lines 213-217: the check after the turns of a round
RoundEnd(i) ==
  /\ pc[i] = "roundEnd"
  /\ pc' = [pc EXCEPT ![i] =
        IF allDead(teams[i].teamA) \/ allDead(teams[i].teamB)
        THEN "resolve" ELSE "loop"]
  /\ UNCHANGED <<probe, hostSort, webSort, engine, tmplA, tmplB, config, rng, teams, log, round,
                 fighters, turn, result>>

RECURSIVE SumHpFrom(_, _)
\* team.reduce((sum, f) => sum + f.hp, 0)
SumHpFrom(team, k) ==
  IF k > Len(team) THEN 0 ELSE team[k].hp + SumHpFrom(team, k + 1)

SumHp(team) == SumHpFrom(team, 1)

\* winner resolution with hpA >= hpB for hpA > hpB
ResolveWinnerTieToA(tm) ==
  IF allDead(tm.teamA) /\ ~allDead(tm.teamB) THEN "B"
  ELSE IF ~allDead(tm.teamA) /\ allDead(tm.teamB) THEN "A"
  ELSE IF SumHp(tm.teamA) >= SumHp(tm.teamB) THEN "A"
  ELSE IF SumHp(tm.teamB) > SumHp(tm.teamA) THEN "B"
  ELSE "DRAW"

\* lines 220-234: winner resolution
ResolveWinner(tm) ==
  LET teamADeadFinal == allDead(tm.teamA)
      teamBDeadFinal == allDead(tm.teamB)
      hpA == SumHp(tm.teamA)
      hpB == SumHp(tm.teamB)
  IN  IF teamADeadFinal /\ ~teamBDeadFinal THEN "B"
      ELSE IF ~teamADeadFinal /\ teamBDeadFinal THEN "A"
      ELSE IF hpA > hpB THEN "A"
      ELSE IF hpB > hpA THEN "B"
      ELSE "DRAW"

\* the final snapshot of the living fighters only:
\* teams.teamA.filter((f) => f.alive).map(snapshotFighter)
FinalStateLivingOnly(tm) ==
  [teamA |-> [k \in 1..Len(Living(tm.teamA)) |->
                snapshotFighter(tm.teamA[Living(tm.teamA)[k]])],
   teamB |-> [k \in 1..Len(Living(tm.teamB)) |->
                snapshotFighter(tm.teamB[Living(tm.teamB)[k]])]]

\* lines 236-239: the final snapshot
FinalState(tm) ==
  [teamA |-> [k \in 1..Len(tm.teamA) |-> snapshotFighter(tm.teamA[k])],
   teamB |-> [k \in 1..Len(tm.teamB) |-> snapshotFighter(tm.teamB[k])]]

\* lines 220-250: winner, snapshot, digest and the returned BattleResult
Resolve(i) ==
  /\ pc[i] = "resolve"
  /\ result' = [result EXCEPT ![i] =
        [config |-> config[i],
         winner |-> ResolveWinner(teams[i]),
         rounds |-> round[i],
         log |-> log[i],
         finalState |-> FinalState(teams[i]),
         logHash |-> computeLogHash(log[i])]]
  /\ pc' = [pc EXCEPT ![i] = "done"]
  /\ UNCHANGED <<probe, hostSort, webSort, engine, tmplA, tmplB, config, rng, teams, log, round,
                 fighters, turn>>

\* simulateBattle is synchronous: a call runs to its return before the
\* next call of the same program starts
MayRun(i) == \A j \in Runs : j < i => pc[j] = "done"

Next ==
  \/ \E i \in Runs : MayRun(i) /\ Call(i)
  \/ \E i \in Runs : MayRun(i) /\ LoopTest(i)
  \/ \E i \in Runs : MayRun(i) /\ RoundStart(i)
  \/ \E i \in Runs : MayRun(i) /\ Turn(i)
  \/ \E i \in Runs : MayRun(i) /\ RoundEnd(i)
  \/ \E i \in Runs : MayRun(i) /\ Resolve(i)

Spec == Init /\ [][Next]_vars

(***************************************************************************)
(* computeDamage applied on its own, on any three stream values            *)
(***************************************************************************)
\* a fighter as cloneTeams makes it
FreshFighter(c) == [base |-> c, hp |-> c.maxHp, alive |-> TRUE]

\* the templates computeDamage is applied to
ProbeTemplates ==
  {Knight, Archer, Orc, Mage} \cup
  {DefaultTeamA[k] : k \in 1..2} \cup {DefaultTeamB[k] : k \in 1..2}

\* stream values u / 2^32: 0, the two values around 0.35, the two values
\* around 0.5 and the largest value
RollValues ==
  {<<0, 0>>, <<22937, 39321>>, <<22937, 39322>>, <<32767, 65535>>,
   <<32768, 0>>, <<65535, 65535>>}

InitDamageProbe ==
  /\ hostSort = "timsort"
  /\ NodeOnly
  /\ tmplA = <<>>
  /\ tmplB = <<>>
  /\ config = [i \in Runs |-> [seed |-> <<>>, maxRounds |-> 1]]
  /\ probe \in [fn : {"computeDamage"},
                args : [attacker : {FreshFighter(c) : c \in ProbeTemplates},
                        defender : {FreshFighter(c) : c \in ProbeTemplates},
                        rolls : [1..3 -> RollValues]],
                out : {<<>>}]
  /\ Idle

\* computeDamage is applied to the arguments
ProbeComputeDamage ==
  /\ probe.fn = "computeDamage"
  /\ probe.out = <<>>
  /\ probe' = [probe EXCEPT !.out =
        <<DamageFromRolls(probe.args.rolls, probe.args.attacker,
                          probe.args.defender)>>]
  /\ UNCHANGED <<hostSort, webSort, engine, tmplA, tmplB, config, pc, rng, teams, log, round,
                 fighters, turn, result>>

InitDamage == Init \/ InitDamageProbe

NextDamage ==
  \/ probe.fn = "none" /\ Next
  \/ ProbeComputeDamage

\* the battles of Spec, and computeDamage on its own
SpecDamage == InitDamage /\ [][NextDamage]_vars

(***************************************************************************)
(* fighters.sort applied on its own, on any generator state                *)
(***************************************************************************)
\* a fighter of a running battle: as cloneTeams makes it, or dead
FighterStates(c) ==
  {FreshFighter(c), [base |-> c, hp |-> 0, alive |-> FALSE]}

\* the teams of a running battle on roster tA against roster tB
TeamStates(tA, tB) ==
  [teamA : {fs \in [1..Len(tA) -> UNION {FighterStates(tA[k]) : k \in 1..Len(tA)}] :
              \A k \in 1..Len(tA) : fs[k].base = tA[k]},
   teamB : {fs \in [1..Len(tB) -> UNION {FighterStates(tB[k]) : k \in 1..Len(tB)}] :
              \A k \in 1..Len(tB) : fs[k].base = tB[k]}]

\* generator states the sort is applied in
ProbeStates ==
  {<<0, 4099 * h, 4093 * l + 7>> : h \in 0..15, l \in 0..15}

InitSortProbe ==
  /\ hostSort \in SortImpls
  /\ NodeOnly
  /\ tmplA \in TeamsA
  /\ tmplB \in TeamsB
  /\ config = [i \in Runs |-> [seed |-> <<>>, maxRounds |-> 1]]
  /\ probe \in [fn : {"sort"},
                args : [teams : TeamStates(tmplA, tmplB), rng : ProbeStates],
                out : {<<>>}]
  /\ Idle

\* fighters.sort(comparator) is applied to the living fighters
ProbeSort ==
  /\ probe.fn = "sort"
  /\ probe.out = <<>>
  /\ probe' = [probe EXCEPT !.out =
        <<SortFighters(hostSort, probe.args.teams,
                       CollectFighters(probe.args.teams), probe.args.rng)>>]
  /\ UNCHANGED <<hostSort, webSort, engine, tmplA, tmplB, config, pc, rng, teams, log, round,
                 fighters, turn, result>>

InitSort == Init \/ InitSortProbe

NextSort ==
  \/ probe.fn = "none" /\ Next
  \/ ProbeSort

\* the battles of Spec, and the sort of the turn order on its own
SpecSort == InitSort /\ [][NextSort]_vars

(***************************************************************************)
(* rng.next and rng.nextInt applied on their own                           *)
(***************************************************************************)
\* generator states next and nextInt are applied in: states below 2^32 and
\* states that have grown beyond
ProbeStatesWide ==
  ProbeStates \cup {<<1, a[2], a[3]>> : a \in ProbeStates}

\* the arguments nextInt is applied to
ProbeMaxExclusive == {-2, -1, 0, 1, 2, 3, 4, 1000}

InitNextIntProbe ==
  /\ hostSort = "timsort"
  /\ NodeOnly
  /\ tmplA = <<>>
  /\ tmplB = <<>>
  /\ config = [i \in Runs |-> [seed |-> <<>>, maxRounds |-> 1]]
  /\ probe \in [fn : {"nextInt"},
                args : [rng : ProbeStatesWide, maxExclusive : ProbeMaxExclusive],
                out : {<<>>}]
  /\ Idle

\* rng.nextInt(maxExclusive) and rng.next() are applied in the state
ProbeNextInt ==
  /\ probe.fn = "nextInt"
  /\ probe.out = <<>>
  /\ probe' = [probe EXCEPT !.out =
        <<RngNextInt(probe.args.rng, probe.args.maxExclusive),
          RngNext(probe.args.rng)>>]
  /\ UNCHANGED <<hostSort, webSort, engine, tmplA, tmplB, config, pc, rng, teams, log, round,
                 fighters, turn, result>>

InitNextInt == Init \/ InitNextIntProbe

NextNextInt ==
  \/ probe.fn = "none" /\ Next
  \/ ProbeNextInt

\* the battles of Spec, and next and nextInt on their own
SpecNextInt == InitNextInt /\ [][NextNextInt]_vars

(***************************************************************************)
(* simulations whose steps are interleaved                                 *)
(***************************************************************************)
\* Two simulations under way at once (two workers, two processes, two
\* pending async calls of web/app.js): any call may take the next step.
NextParallel ==
  \/ \E i \in Runs : Call(i)
  \/ \E i \in Runs : LoopTest(i)
  \/ \E i \in Runs : RoundStart(i)
  \/ \E i \in Runs : Turn(i)
  \/ \E i \in Runs : RoundEnd(i)
  \/ \E i \in Runs : Resolve(i)

SpecParallel == Init /\ [][NextParallel]_vars

\* the locals of call i of simulateBattle: rng, teams, log, round, fighters,
\* the position in the loops, and the value returned
Locals(i) ==
  [pc |-> pc[i], rng |-> rng[i], teams |-> teams[i], log |-> log[i],
   round |-> round[i], fighters |-> fighters[i], turn |-> turn[i],
   result |-> result[i]]

\* the locals before the call
NoLocals ==
  [pc |-> "idle", rng |-> <<0, 0, 0>>, teams |-> [teamA |-> <<>>, teamB |-> <<>>],
   log |-> <<>>, round |-> 0, fighters |-> <<>>, turn |-> 0,
   result |-> NoResult]

\* lines 147-170 of a call on its own
RoundStartAlone(srt, L) ==
  LET fs == CollectFighters(L.teams)
      sorted == SortFighters(srt, L.teams, fs, L.rng)
  IN  IF Len(fs) = 0
      THEN [L EXCEPT !.round = @ + 1, !.pc = "resolve", !.fighters = fs]
      ELSE [L EXCEPT !.round = @ + 1, !.pc = "turns", !.fighters = sorted.arr,
                     !.rng = sorted.rng, !.turn = 1]

\* the position after one iteration of the for-of loop of a call on its own
AdvanceAlone(L) ==
  [L EXCEPT !.turn = @ + 1,
            !.pc = IF L.turn + 1 > Len(L.fighters) THEN "roundEnd" ELSE "turns"]

\* lines 179-210 of a call on its own: the attack of e on the other team
AttackAlone(L, e, fighter, opponents) ==
  LET choice == chooseTarget(L.rng, opponents)
      target == opponents[choice.target]
      dmg    == computeDamage(choice.rng, fighter, target)
      hit    == ApplyDamage(target, dmg.damage)
  IN  IF choice.target = 0
      THEN [AdvanceAlone(L) EXCEPT !.rng = choice.rng]
      ELSE [AdvanceAlone(L) EXCEPT
              !.rng = dmg.rng,
              !.teams = WithTeam(@, Other(e.team),
                                 SetAt(opponents, choice.target, hit)),
              !.log = Append(@, MakeEvent(L.round, e.team, fighter, target.hp,
                                          hit, dmg.damage, dmg.isCrit))]

\* lines 172-211 of a call on its own: one iteration of the for-of loop
TurnAlone(L) ==
  LET e == L.fighters[L.turn]
      fighter == FighterOf(L.teams, e)
      opponents == TeamOf(L.teams, Other(e.team))
  IN  IF ~fighter.alive THEN AdvanceAlone(L)
      ELSE IF allDead(opponents) THEN [L EXCEPT !.pc = "roundEnd"]
      ELSE AttackAlone(L, e, fighter, opponents)

\* lines 220-250 of a call on its own
ResolveAlone(cfg, L) ==
  [L EXCEPT !.pc = "done",
            !.result = [config |-> cfg,
                        winner |-> ResolveWinner(L.teams),
                        rounds |-> L.round,
                        log |-> L.log,
                        finalState |-> FinalState(L.teams),
                        logHash |-> computeLogHash(L.log)]]

\* one step of a call of simulateBattle(tA, tB, cfg) on its own, on a host
\* with sort routine srt, from locals L
StepAlone(srt, tA, tB, cfg, L) ==
  CASE L.pc = "idle" ->
         [L EXCEPT !.pc = "loop", !.rng = createDeterministicRng(cfg.seed),
                   !.teams = cloneTeams(tA, tB), !.log = <<>>, !.round = 0]
    [] L.pc = "loop" ->
         [L EXCEPT !.pc = IF L.round < cfg.maxRounds THEN "round" ELSE "resolve"]
    [] L.pc = "round" -> RoundStartAlone(srt, L)
    [] L.pc = "turns" -> TurnAlone(L)
    [] L.pc = "roundEnd" ->
         [L EXCEPT !.pc = IF allDead(L.teams.teamA) \/ allDead(L.teams.teamB)
                          THEN "resolve" ELSE "loop"]
    [] L.pc = "resolve" -> ResolveAlone(cfg, L)

RECURSIVE RunFrom(_, _, _, _, _)
\* the value a call on its own returns when it goes on from locals L
RunFrom(srt, tA, tB, cfg, L) ==
  IF L.pc = "done" THEN L.result
  ELSE RunFrom(srt, tA, tB, cfg, StepAlone(srt, tA, tB, cfg, L))

\* the value simulateBattle(tA, tB, cfg) returns when nothing else runs
RunAlone(srt, tA, tB, cfg) == RunFrom(srt, tA, tB, cfg, NoLocals)

(***************************************************************************)
(* battles long enough to be fought to the end                             *)
(***************************************************************************)
\* fighters of little health whose blows (base 1) do 1 or 2 damage
Squire == Template("squire", "Squire", 3, 1, 2, 1, 15, 14)
Scout  == Template("scout", "Scout", 1, 1, 2, 2, 25, 15)
Imp    == Template("imp", "Imp", 3, 1, 2, 1, 12, 13)

LongTeamsA == {<<>>, <<Squire>>, <<Squire, Scout>>}
LongTeamsB == {<<Imp>>}

\* the largest maxRounds of these battles: the most health a pair of these
\* rosters has
LongRounds == 7

\* their seeds: one character more than the seeds of the other battles
LongSeeds == UNION {SeedsOfLen(n) : n \in 0..(MaxSeedLen + 1)}

LongConfigs == [seed : LongSeeds, maxRounds : 1..LongRounds]

InitLongBattle ==
  /\ hostSort \in SortImpls
  /\ NodeOnly
  /\ tmplA \in LongTeamsA
  /\ tmplB \in LongTeamsB
  /\ config \in {c \in [Runs -> LongConfigs] : c[1] = c[2]}
  /\ probe = NoProbe
  /\ Idle

InitLong == Init \/ InitLongBattle

\* the battles of Spec, and the battles long enough to be fought to the end
SpecLong == InitLong /\ [][Next]_vars

(***************************************************************************)
(* web/app.js: the same battle in the browser                              *)
(***************************************************************************)
\* Call 1 is simulateBattle of src/battleEngine.ts under Node, call 2 is
\* simulateBattle of web/app.js in a browser, on the same templates and the
\* same config.  The statements of the two functions are the same; the
\* browser brings its own Array.prototype.sort.
InitWeb ==
  /\ hostSort \in SortImpls
  /\ webSort \in SortImpls
  /\ engine = [i \in Runs |-> IF i = 1 THEN "node" ELSE "web"]
  /\ tmplA \in TeamsA
  /\ tmplB \in TeamsB
  /\ config \in {c \in [Runs -> Configs] : c[1] = c[2]}
  /\ probe = NoProbe
  /\ Idle

SpecWeb == InitWeb /\ [][Next]_vars

\* every call runs to its end
FairSpec == Spec /\ WF_vars(Next)

(***************************************************************************)
(* Properties                                                              *)
(***************************************************************************)
\* whether call i has returned
Done(i) == pc[i] = "done"

\* the fighters of both teams of tm
BothTeams(tm) == tm.teamA \o tm.teamB

\* the last event of a log
LastEvent(lg) == lg[Len(lg)]

\* the fighter of the team with the template id `id`
FighterById(team, id) ==
  team[CHOOSE k \in 1..Len(team) : team[k].base.id = id]

C2_HealthBounds ==
  \A i \in Runs :
    /\ \A k \in 1..Len(BothTeams(teams[i])) :
         /\ 0 <= BothTeams(teams[i])[k].hp
         /\ BothTeams(teams[i])[k].hp <= BothTeams(teams[i])[k].base.maxHp
    /\ Done(i) =>
         \A k \in 1..Len(BothTeams(result[i].finalState)) :
           /\ 0 <= BothTeams(result[i].finalState)[k].hp
           /\ BothTeams(result[i].finalState)[k].hp
                <= BothTeams(result[i].finalState)[k].maxHp

\* a call has returned with one fighter at 0 after a blow larger than the
\* health it had left, and another fighter wounded but alive
C2_Witness ==
  \E i \in Runs :
    /\ Done(i)
    /\ \E k \in 1..Len(result[i].log) :
         result[i].log[k].target.hpBefore < result[i].log[k].damage
    /\ \E k \in 1..Len(BothTeams(result[i].finalState)) :
         BothTeams(result[i].finalState)[k].hp = 0
    /\ \E k \in 1..Len(BothTeams(result[i].finalState)) :
         /\ BothTeams(result[i].finalState)[k].hp > 0
         /\ BothTeams(result[i].finalState)[k].hp
              < BothTeams(result[i].finalState)[k].maxHp

\* the step of call i that appends an event: the event is appended at the
\* end, its target.hpBefore is the target's health before the step, its
\* target.hpAfter is max(0, hpBefore - damage) and is the target's health
\* after the step
EventHealth(i) ==
  log'[i] # log[i] =>
    /\ log'[i] = Append(log[i], LastEvent(log'[i]))
    /\ LastEvent(log'[i]).target.hpBefore =
         FighterById(TeamOf(teams[i], Other(LastEvent(log'[i]).actorTeam)),
                     LastEvent(log'[i]).target.id).hp
    /\ LastEvent(log'[i]).target.hpAfter =
         Max(0, LastEvent(log'[i]).target.hpBefore - LastEvent(log'[i]).damage)
    /\ LastEvent(log'[i]).target.hpAfter =
         FighterById(TeamOf(teams'[i], Other(LastEvent(log'[i]).actorTeam)),
                     LastEvent(log'[i]).target.id).hp

\* C3: for every event appended to the log, target.hpBefore is the target's
\* health immediately before the attack and target.hpAfter equals
\* max(0, target.hpBefore - damage), the target's health right after.
C3_EventHealth == [][\A i \in Runs : EventHealth(i)]_vars

\* the last event appended is a blow larger than the health the target had
\* left, and an earlier event left its target alive
C3_Witness ==
  \E i \in Runs :
    /\ Len(log[i]) >= 2
    /\ LastEvent(log[i]).target.hpBefore < LastEvent(log[i]).damage
    /\ LastEvent(log[i]).target.hpAfter = 0
    /\ log[i][1].target.hpAfter > 0

\* the round counter stays within maxRounds and is what is returned
RoundsBounded ==
  \A i \in Runs :
    /\ round[i] <= config[i].maxRounds
    /\ Done(i) => (result[i].rounds = round[i]
                   /\ result[i].rounds <= config[i].maxRounds)

\* the counter counts the rounds started: the step that runs the start of
\* the loop body adds exactly one to it, no other step of a running call
\* changes it, and the body is entered only below maxRounds
RoundCounting(i) ==
  /\ (pc[i] = "round" /\ pc'[i] # "round") => round'[i] = round[i] + 1
  /\ (pc[i] # "round" /\ pc[i] # "idle") => round'[i] = round[i]
  /\ (pc[i] = "idle" /\ pc'[i] # "idle") => round'[i] = 0
  /\ (pc[i] # "round" /\ pc'[i] = "round") => round[i] < config[i].maxRounds

\* C4: for a positive integer maxRounds simulateBattle terminates, the loop
\* body runs at most maxRounds times, and the returned rounds is at most
\* maxRounds and is the number of rounds started.
C4_Termination ==
  /\ []RoundsBounded
  /\ [][\A i \in Runs : RoundCounting(i)]_vars
  /\ <>(\A i \in Runs : Done(i))

\* a call has returned after maxRounds >= 2 rounds with a living fighter on
\* both sides: the round limit ended the loop
C4_Witness ==
  \E i \in Runs :
    /\ Done(i)
    /\ config[i].maxRounds >= 2
    /\ result[i].rounds = config[i].maxRounds
    /\ ~allDead(result[i].finalState.teamA)
    /\ ~allDead(result[i].finalState.teamB)

\* the winner the resolution rule gives for a final-state snapshot
RuleWinner(fs) ==
  IF allDead(fs.teamA) # allDead(fs.teamB)
  THEN (IF allDead(fs.teamA) THEN "B" ELSE "A")
  ELSE IF SumHp(fs.teamA) > SumHp(fs.teamB) THEN "A"
  ELSE IF SumHp(fs.teamA) < SumHp(fs.teamB) THEN "B"
  ELSE "DRAW"

\* C5: the winner is one of A, B, DRAW and follows from the returned
\* finalState: if exactly one team is fully dead the other wins, otherwise
\* the larger sum of remaining health wins and equal sums give DRAW.
C5_WinnerResolution ==
  \A i \in Runs :
    Done(i) =>
      /\ result[i].winner \in {"A", "B", "DRAW"}
      /\ result[i].winner = RuleWinner(result[i].finalState)

\* a call has returned a DRAW between two teams that both still have a
\* living fighter, after at least two attacks
C5_Witness ==
  \E i \in Runs :
    /\ Done(i)
    /\ result[i].winner = "DRAW"
    /\ Len(result[i].log) >= 2
    /\ ~allDead(result[i].finalState.teamA)
    /\ ~allDead(result[i].finalState.teamB)

\* the step of call i that appends an event: the actor's team had a living
\* fighter and the actor itself was alive, with health > 0, before the step
ActorAlive(i) ==
  log'[i] # log[i] =>
    /\ ~allDead(TeamOf(teams[i], LastEvent(log'[i]).actorTeam))
    /\ FighterById(TeamOf(teams[i], LastEvent(log'[i]).actorTeam),
                   LastEvent(log'[i]).actor.id).alive
    /\ FighterById(TeamOf(teams[i], LastEvent(log'[i]).actorTeam),
                   LastEvent(log'[i]).actor.id).hp > 0
    /\ LastEvent(log'[i]).actor.hpBefore > 0

\* a fighter of a running call that is dead stays dead
DeadStaysDead(i) ==
  pc[i] # "idle" =>
    \A k \in 1..Len(BothTeams(teams[i])) :
      ~BothTeams(teams[i])[k].alive => ~BothTeams(teams'[i])[k].alive

\* C6: once a team has no living fighter, no event appended afterwards has
\* that team as actorTeam; every event's actor was alive (health > 0) when
\* it acted.
C6_DeadDoNotAct ==
  [][\A i \in Runs : ActorAlive(i) /\ DeadStaysDead(i)]_vars

\* the fighter whose turn has just passed is dead and has no event in this
\* round, while the opposing team still has a living fighter: its turn was
\* skipped
C6_Witness ==
  \E i \in Runs :
    /\ pc[i] \in {"turns", "roundEnd"}
    /\ turn[i] > 1
    /\ turn[i] - 1 <= Len(fighters[i])
    /\ ~FighterOf(teams[i], fighters[i][turn[i] - 1]).alive
    /\ ~allDead(TeamOf(teams[i], Other(fighters[i][turn[i] - 1].team)))
    /\ \A k \in 1..Len(log[i]) :
         log[i][k].round = round[i] =>
           log[i][k].actor.id #
             FighterOf(teams[i], fighters[i][turn[i] - 1]).base.id

\* C7 (as claimed): when both teams are empty at the start the returned
\* rounds is 0, the log is empty and the winner is DRAW.
C7_EmptyTeamsZeroRounds ==
  \A i \in Runs :
    (Done(i) /\ tmplA = <<>> /\ tmplB = <<>>) =>
      /\ result[i].rounds = 0
      /\ result[i].log = <<>>
      /\ result[i].winner = "DRAW"

\* C8: a fighter's alive flag is true if and only if its health is greater
\* than 0, in every state and in the final-state snapshot.
C8_AliveIffHealth ==
  \A i \in Runs :
    /\ \A k \in 1..Len(BothTeams(teams[i])) :
         BothTeams(teams[i])[k].alive <=> BothTeams(teams[i])[k].hp > 0
    /\ Done(i) =>
         \A k \in 1..Len(BothTeams(result[i].finalState)) :
           BothTeams(result[i].finalState)[k].alive
             <=> BothTeams(result[i].finalState)[k].hp > 0

\* a call has returned with a dead fighter and a living one on the same team
C8_Witness ==
  \E i \in Runs :
    /\ Done(i)
    /\ Len(result[i].finalState.teamB) = 2
    /\ \E k \in 1..2 : ~result[i].finalState.teamB[k].alive
    /\ \E k \in 1..2 : result[i].finalState.teamB[k].alive

\* the position in opponents of the fighter with template id `id`
PositionOf(opponents, id) ==
  CHOOSE k \in 1..Len(opponents) : opponents[k].base.id = id

\* the value nextInt(n) returns in generator state a: floor(u * n / 2^32)
\* for the next stream value u / 2^32
NextIndex(a, n) == MulFloor(MulberryOut(MulberryAdvance(a)), n)

\* the step of call i that appends an event: the target is on the team
\* opposite to the actor, was alive before the step, and is the living
\* opponent at index nextInt(livingCount) in team order
TargetChosen(i) ==
  log'[i] # log[i] =>
    /\ LastEvent(log'[i]).actorTeam = fighters[i][turn[i]].team
    /\ \E k \in 1..Len(TeamOf(teams[i], Other(LastEvent(log'[i]).actorTeam))) :
         TeamOf(teams[i], Other(LastEvent(log'[i]).actorTeam))[k].base.id
           = LastEvent(log'[i]).target.id
    /\ FighterById(TeamOf(teams[i], Other(LastEvent(log'[i]).actorTeam)),
                   LastEvent(log'[i]).target.id).alive
    /\ LastEvent(log'[i]).target.hpBefore > 0
    /\ PositionOf(TeamOf(teams[i], Other(LastEvent(log'[i]).actorTeam)),
                  LastEvent(log'[i]).target.id)
         = Living(TeamOf(teams[i], Other(LastEvent(log'[i]).actorTeam)))[
             NextIndex(rng[i],
                       Len(Living(TeamOf(teams[i],
                             Other(LastEvent(log'[i]).actorTeam))))) + 1]

\* a turn of call i against a team with no living fighter draws nothing
\* and appends nothing, and chooseTarget on such a team returns no target
\* and the generator as it was
NoTargetNoDraw(i) ==
  (pc[i] = "turns"
   /\ allDead(TeamOf(teams[i], Other(fighters[i][turn[i]].team)))) =>
    /\ log'[i] = log[i]
    /\ rng'[i] = rng[i]
    /\ chooseTarget(rng[i], TeamOf(teams[i], Other(fighters[i][turn[i]].team)))
         = [target |-> 0, rng |-> rng[i]]

\* C9: every event's target is a fighter of the team opposite to actorTeam
\* that was alive immediately before the attack; it is the element at index
\* nextInt(livingCount) of the opponent's living fighters in team order;
\* with no living opponent no target is chosen, no stream value is drawn
\* and no event is produced.
C9_TargetSelection ==
  [][\A i \in Runs : TargetChosen(i) /\ NoTargetNoDraw(i)]_vars

\* the last event hit the second fighter of team B while the first one is
\* still alive: index 1 of two living opponents was drawn
C9_Witness ==
  \E i \in Runs :
    /\ Len(log[i]) >= 1
    /\ Len(teams[i].teamB) = 2
    /\ LastEvent(log[i]).actorTeam = "A"
    /\ LastEvent(log[i]).target.id = teams[i].teamB[2].base.id
    /\ teams[i].teamB[1].alive

\* C10: every event in the log has an integer damage of at least 1, and so
\* has the result of computeDamage for every attacker, defender and triple
\* of stream values.
C10_DamageAtLeastOne ==
  /\ \A i \in Runs : \A k \in 1..Len(log[i]) :
       log[i][k].damage \in Nat /\ log[i][k].damage >= 1
  /\ (probe.fn = "computeDamage" /\ probe.out # <<>>) =>
       (probe.out[1].damage \in Nat /\ probe.out[1].damage >= 1)

\* computeDamage has returned 1 where the product is 0.9, below 1: base
\* damage 1, no skill, no crit, variance roll 0
C10_Witness ==
  /\ probe.fn = "computeDamage"
  /\ probe.out # <<>>
  /\ probe.out[1].damage = 1
  /\ ~probe.out[1].isCrit
  /\ Base2(probe.args.attacker, probe.args.defender) = 2
  /\ probe.args.rolls = <<<<65535, 65535>>, <<65535, 65535>>, <<0, 0>>>>

\* K for the reference formula: base * skillMultiplier * critMultiplier in
\* units of 1/200, for a skill decision and a critical decision
RefK(attacker, defender, skill, crit) ==
  (IF 2 * attacker.base.attack - defender.base.defense >= 2
   THEN 2 * attacker.base.attack - defender.base.defense ELSE 2)
  * (IF skill THEN attacker.base.skill10 ELSE 10)
  * (IF crit THEN 17 ELSE 10)

\* d <= (K / 200) * (0.9 + (u / 2^32) * 0.2), by cross-multiplication:
\* (2000 d - 9K) * 2^32 <= 2K * u
AtMostProduct(d, K, u) ==
  LET N == 2000 * d - 9 * K
  IN  \/ N <= 0
      \/ /\ N <= 2 * K
         /\ N * Limb <= 2 * K * u[1] + (2 * K * u[2]) \div Limb

\* r1 < 0.35 for r1 = u / 2^32: u is at most floor(0.35 * 2^32) = 1503238553
RefSkill(u) == WordCmp(u, <<22937, 39321>>) <= 0

\* r2 < critChance for r2 = u / 2^32: u is below crit100 * 2^32 / 100, whose
\* integer part is found by long division, limb by limb
RefCrit(u, crit100) ==
  LET q1 == (crit100 * Limb) \div 100
      r1 == (crit100 * Limb) % 100
      q2 == (r1 * Limb) \div 100
      r2 == (r1 * Limb) % 100
  IN  IF r2 = 0 THEN WordCmp(u, <<q1, q2>>) < 0
      ELSE WordCmp(u, <<q1, q2>>) <= 0

\* the result out of computeDamage on (rolls, attacker, defender) is what
\* the reference formula gives
MatchesReference(out, rolls, attacker, defender) ==
  LET skill == RefSkill(rolls[1])
      crit  == RefCrit(rolls[2], attacker.base.crit100)
      K     == RefK(attacker, defender, skill, crit)
  IN  /\ out.isCrit = crit
      /\ out.damage \in Nat
      /\ out.damage >= 1
      /\ out.damage = 1 \/ AtMostProduct(out.damage, K, rolls[3])
      /\ ~AtMostProduct(out.damage + 1, K, rolls[3])

\* computeDamage applied on its own returns what the reference formula gives
ProbeMatchesReference ==
  (probe.fn = "computeDamage" /\ probe.out # <<>>) =>
    MatchesReference(probe.out[1], probe.args.rolls, probe.args.attacker,
                     probe.args.defender)

\* computeDamage changes neither fighter: applied on its own it leaves its
\* arguments as they were, and the step of call i that appends an event
\* leaves the attacker as it was and changes nothing of the target but the
\* hp and alive that lines 185-188 write
DamageLeavesFighters(i) ==
  /\ probe'.args = probe.args
  /\ log'[i] # log[i] =>
       /\ FighterOf(teams'[i], fighters[i][turn[i]])
            = FighterOf(teams[i], fighters[i][turn[i]])
       /\ \A k \in 1..Len(BothTeams(teams[i])) :
            BothTeams(teams'[i])[k].base = BothTeams(teams[i])[k].base

\* C11: for every attacker, defender and draw triple (r1, r2, r3),
\* computeDamage returns damage = max(1, floor(base * (skillMultiplier if
\* r1 < 0.35 else 1) * (0.9 + r3 * 0.2) * (1.7 if r2 < critChance else 1)))
\* with base = max(1, attack - defense * 0.5), returns isCrit = r2 <
\* critChance, and changes neither fighter.
C11_DamageFormula ==
  /\ []ProbeMatchesReference
  /\ [][\A i \in Runs : DamageLeavesFighters(i)]_vars

\* computeDamage has returned a critical skill hit of more than 1 at the
\* largest variance roll
C11_Witness ==
  /\ probe.fn = "computeDamage"
  /\ probe.out # <<>>
  /\ RefSkill(probe.args.rolls[1])
  /\ probe.out[1].isCrit
  /\ probe.out[1].damage >= 2
  /\ probe.args.rolls[3] = <<65535, 65535>>

RECURSIVE StreamState(_, _)
\* the generator state k draws after state a
StreamState(a, k) ==
  IF k = 0 THEN a ELSE StreamState(MulberryAdvance(a), k - 1)

\* the k-th value (k >= 1) the stream gives after state a
StreamValue(a, k) == MulberryOut(StreamState(a, k))

\* the step of call i that appends an event draws exactly four values: the
\* first is the target index, the second, third and fourth are the skill
\* roll, the crit roll and the variance roll of the damage of the event
AttackDraws(i) ==
  log'[i] # log[i] =>
    LET ev     == LastEvent(log'[i])
        opp    == TeamOf(teams[i], Other(ev.actorTeam))
        actor  == FighterOf(teams[i], fighters[i][turn[i]])
        target == FighterById(opp, ev.target.id)
    IN  /\ rng'[i] = StreamState(rng[i], 4)
        /\ PositionOf(opp, ev.target.id)
             = Living(opp)[MulFloor(StreamValue(rng[i], 1), Len(Living(opp))) + 1]
        /\ MatchesReference([damage |-> ev.damage, isCrit |-> ev.isCrit],
                            <<StreamValue(rng[i], 2), StreamValue(rng[i], 3),
                              StreamValue(rng[i], 4)>>,
                            actor, target)

\* a turn of call i whose actor is dead or whose opponents are all dead, and
\* every turn that appends nothing, draws nothing
SkippedTurnDraws(i) ==
  pc[i] = "turns" =>
    /\ (\/ ~FighterOf(teams[i], fighters[i][turn[i]]).alive
        \/ allDead(TeamOf(teams[i], Other(fighters[i][turn[i]].team))))
         => (log'[i] = log[i] /\ rng'[i] = rng[i])
    /\ log'[i] = log[i] => rng'[i] = rng[i]

\* whether no two living fighters of tm have the same speed
DistinctSpeeds(tm) ==
  \A j, k \in 1..Len(CollectFighters(tm)) :
    j # k => FighterOf(tm, CollectFighters(tm)[j]).base.speed
               # FighterOf(tm, CollectFighters(tm)[k]).base.speed

\* the sort at the start of a round of call i draws the values in pairs,
\* and none when no two living fighters have the same speed; the steps
\* other than the sort and the turns draw nothing
OtherDraws(i) ==
  /\ pc[i] = "round" =>
       /\ \E n \in 0..(Len(CollectFighters(teams[i])) * Len(CollectFighters(teams[i]))) :
            rng'[i] = StreamState(rng[i], 2 * n)
       /\ DistinctSpeeds(teams[i]) => rng'[i] = rng[i]
  /\ pc[i] \in {"loop", "roundEnd", "resolve", "done"} => rng'[i] = rng[i]
  /\ pc[i] = "idle" =>
       rng'[i] = IF pc'[i] = "idle" THEN rng[i]
                 ELSE createDeterministicRng(config[i].seed)

\* C12: every attack that appends an event consumes exactly four
\* consecutive stream values in the order target index, skill roll, crit
\* roll, variance roll; a skipped turn (actor dead, or no living opponent)
\* consumes none; the only other draws are the pairs drawn by the
\* turn-order comparisons of equal-speed fighters.
C12_DrawOrder ==
  [][\A i \in Runs : AttackDraws(i) /\ SkippedTurnDraws(i) /\ OtherDraws(i)]_vars

\* the first attack of a call has been made after one comparison of two
\* equal-speed fighters: six values drawn, two by the sort and four by the
\* attack
C12_Witness ==
  \E i \in Runs :
    /\ Len(log[i]) = 1
    /\ rng[i] = StreamState(createDeterministicRng(config[i].seed), 6)

\* the speed of the fighter of tm an entry of the turn order refers to
SpeedOf(tm, e) == FighterOf(tm, e).base.speed

\* arr lists the entries of from, each once, in descending order of speed
SortedBySpeed(tm, arr, from) ==
  /\ Len(arr) = Len(from)
  /\ {arr[k] : k \in 1..Len(arr)} = {from[k] : k \in 1..Len(from)}
  /\ \A j, k \in 1..Len(arr) :
       j < k => SpeedOf(tm, arr[j]) >= SpeedOf(tm, arr[k])

\* the speed of the actor of an event of call i
ActorSpeed(i, ev) ==
  FighterById(TeamOf(teams[i], ev.actorTeam), ev.actor.id).base.speed

\* of two events of one round of call i, the earlier one has the actor
\* with the greater or equal speed; the turn order of a round under way is
\* in descending order of speed
EventsBySpeed(i) ==
  /\ \A j, k \in 1..Len(log[i]) :
       (j < k /\ log[i][j].round = log[i][k].round) =>
         ActorSpeed(i, log[i][j]) >= ActorSpeed(i, log[i][k])
  /\ pc[i] \in {"turns", "roundEnd"} =>
       \A j, k \in 1..Len(fighters[i]) :
         j < k => SpeedOf(teams[i], fighters[i][j]) >= SpeedOf(teams[i], fighters[i][k])

\* the comparator on two living fighters of tm in generator state a: with
\* different speeds it returns b.speed - a.speed and draws nothing, with
\* equal speeds it draws exactly two values
ComparisonDraws(tm, a) ==
  \A j, k \in 1..Len(CollectFighters(tm)) :
    LET ea == CollectFighters(tm)[j]
        eb == CollectFighters(tm)[k]
        c  == comparefn(tm, ea, eb, a)
    IN  IF SpeedOf(tm, ea) # SpeedOf(tm, eb)
        THEN c.rng = a /\ c.order = SpeedOf(tm, eb) - SpeedOf(tm, ea)
        ELSE c.rng = StreamState(a, 2)

\* C13: within a round the events are in descending order of the actors'
\* speed, and the sort puts the living fighters in descending order of
\* speed whatever values the tie-break draws; a comparison of fighters with
\* different speeds draws nothing and a comparison of equal-speed fighters
\* draws exactly two stream values.
C13_TurnOrderBySpeed ==
  /\ \A i \in Runs :
       /\ EventsBySpeed(i)
       /\ pc[i] = "round" => ComparisonDraws(teams[i], rng[i])
  /\ probe.fn = "sort" =>
       /\ probe.out = <<>> => ComparisonDraws(probe.args.teams, probe.args.rng)
       /\ probe.out # <<>> =>
            SortedBySpeed(probe.args.teams, probe.out[1].arr,
                          CollectFighters(probe.args.teams))

\* the sort has put four living fighters, two pairs of equal speed, in an
\* order that reverses both pairs: each tie-break went against the order
\* the fighters were collected in
C13_Witness ==
  /\ probe.fn = "sort"
  /\ probe.out # <<>>
  /\ probe.out[1].arr = <<[team |-> "B", idx |-> 2], [team |-> "A", idx |-> 2],
                          [team |-> "B", idx |-> 1], [team |-> "A", idx |-> 1]>>

\* whether lg is a prefix of lg2
IsPrefix(lg, lg2) ==
  /\ Len(lg) <= Len(lg2)
  /\ \A k \in 1..Len(lg) : lg2[k] = lg[k]

\* a step leaves the log of call i unchanged or appends exactly one event
\* at its end, and the log returned is the log as it is at the return and
\* stays what was returned
AppendOnly(i) ==
  /\ \/ log'[i] = log[i]
     \/ /\ Len(log'[i]) = Len(log[i]) + 1
        /\ IsPrefix(log[i], log'[i])
  /\ (pc[i] = "resolve" /\ pc'[i] = "done") => result'[i].log = log[i]
  /\ Done(i) => (result'[i] = result[i] /\ log'[i] = log[i])

\* C14: the log is append-only: every step leaves it unchanged or appends
\* exactly one event at the end; no event in the log is removed, reordered
\* or modified, so the log at any earlier point is a prefix of the returned
\* log.
C14_AppendOnlyLog ==
  /\ [][\A i \in Runs : AppendOnly(i)]_vars
  /\ [](\A i \in Runs : Done(i) => IsPrefix(log[i], result[i].log)
                                   /\ IsPrefix(result[i].log, log[i]))

\* a call has returned a log of at least three events from two rounds
C14_Witness ==
  \E i \in Runs :
    /\ Done(i)
    /\ Len(result[i].log) >= 3
    /\ result[i].log[1].round # LastEvent(result[i].log).round

\* the fighters of a team are the templates of the roster, one each, in
\* the order of the roster
FollowsRoster(team, roster) ==
  /\ Len(team) = Len(roster)
  /\ \A k \in 1..Len(roster) : team[k].base = roster[k]

\* the snapshots of a team are those of the templates of the roster, one
\* each, in the order of the roster
SnapshotsFollowRoster(snaps, roster) ==
  /\ Len(snaps) = Len(roster)
  /\ \A k \in 1..Len(roster) :
       /\ snaps[k].id = roster[k].id
       /\ snaps[k].name = roster[k].name
       /\ snaps[k].maxHp = roster[k].maxHp

\* in every state of a call under way the per-run teams follow the rosters,
\* and so do the snapshots of the returned finalState
TeamsFollowRosters(i) ==
  /\ pc[i] # "idle" =>
       /\ FollowsRoster(teams[i].teamA, tmplA)
       /\ FollowsRoster(teams[i].teamB, tmplB)
  /\ Done(i) =>
       /\ SnapshotsFollowRoster(result[i].finalState.teamA, tmplA)
       /\ SnapshotsFollowRoster(result[i].finalState.teamB, tmplB)

\* a step leaves both rosters as they are, and changes nothing of a
\* fighter of a call under way but its hp and alive
OnlyHealthChanges(i) ==
  /\ tmplA' = tmplA
  /\ tmplB' = tmplB
  /\ pc[i] # "idle" =>
       /\ Len(BothTeams(teams'[i])) = Len(BothTeams(teams[i]))
       /\ \A k \in 1..Len(BothTeams(teams[i])) :
            [BothTeams(teams'[i])[k] EXCEPT !.hp = 0, !.alive = FALSE]
              = [BothTeams(teams[i])[k] EXCEPT !.hp = 0, !.alive = FALSE]

\* C15: simulateBattle leaves both template lists (length, order, every
\* field of every template) unchanged; only the per-run fighters' hp and
\* alive change, and the per-run team lists keep the template order, so
\* that finalState lists exactly one snapshot per template in input order.
C15_TemplatesNotMutated ==
  /\ [](\A i \in Runs : TeamsFollowRosters(i))
  /\ [][\A i \in Runs : OnlyHealthChanges(i)]_vars

\* a call on two rosters of two has returned with a dead fighter, after a
\* round whose turn order was not the order of the rosters
C15_Witness ==
  \E i \in Runs :
    /\ Done(i)
    /\ Len(tmplA) = 2 /\ Len(tmplB) = 2
    /\ \E k \in 1..2 : ~result[i].finalState.teamA[k].alive
    /\ Len(fighters[i]) >= 2
    /\ fighters[i][1] # [team |-> "A", idx |-> 1]

\* nextInt(n) applied in state a has returned r: for n >= 1 an integer in
\* 0..n-1, which is floor(v * n) for the next stream value v, with the
\* stream one value further; for n <= 0 the value 0 with the stream as it
\* was
NextIntResult(a, n, r) ==
  IF n >= 1
  THEN /\ r.value \in 0..(n - 1)
       /\ r.value = MulFloor(StreamValue(a, 1), n)
       /\ r.rng = StreamState(a, 1)
  ELSE r.value = 0 /\ r.rng = a

\* next() applied in state a has returned r: a value u / 2^32 with
\* 0 <= u < 2^32, with the stream one value further
NextResult(a, r) ==
  /\ r.value \in Words
  /\ r.rng = StreamState(a, 1)

\* C16: for every generator state and every integer n >= 1, nextInt(n)
\* returns an integer k with 0 <= k < n and advances the stream by exactly
\* one value; for n <= 0 it returns 0 and does not advance the stream;
\* next() returns a value v with 0 <= v < 1. The bound holds for the
\* smallest and the largest stream value.
C16_BoundedIntDraw ==
  /\ (probe.fn = "nextInt" /\ probe.out # <<>>) =>
       /\ NextIntResult(probe.args.rng, probe.args.maxExclusive, probe.out[1])
       /\ NextResult(probe.args.rng, probe.out[2])
  /\ \A i \in Runs : pc[i] = "turns" => NextResult(rng[i], RngNext(rng[i]))
  /\ \A u \in RollValues : \A n \in {m \in ProbeMaxExclusive : m >= 1} :
       MulFloor(u, n) \in 0..(n - 1)

\* nextInt(4) has returned 3 in a generator state beyond 2^32
C16_Witness ==
  /\ probe.fn = "nextInt"
  /\ probe.out # <<>>
  /\ probe.args.maxExclusive = 4
  /\ probe.args.rng[1] = 1
  /\ probe.out[1].value = 3

\* (a + 0x6D2B79F5) mod 2^32 as a generator state
WrappedAdvance(a) ==
  <<0, Add32[Low32(a), MulberryInc][1], Add32[Low32(a), MulberryInc][2]>>

RECURSIVE WrappedState(_, _)
\* the state k wrapped advances after state a
WrappedState(a, k) ==
  IF k = 0 THEN a ELSE WrappedState(WrappedAdvance(a), k - 1)

\* the most values one step draws: four for an attack, two for each
\* comparison of a sort of n fighters
MostDraws(n) == 4 + 2 * n * n

\* a step of call i under way leaves the stored state of the generator a
\* 32-bit integer that some number of wrapped advances lead to
StateWrapped(i) ==
  (pc[i] # "idle" /\ rng'[i] # rng[i]) =>
    /\ rng'[i][1] = 0
    /\ \E k \in 1..MostDraws(Len(BothTeams(teams[i]))) :
         rng'[i] = WrappedState(rng[i], k)

\* C17 (as claimed): after every call of next() the stored internal state
\* of the generator is a 32-bit integer, equal to
\* (previous state + 0x6D2B79F5) mod 2^32.
C17_StateWrapped == [][\A i \in Runs : StateWrapped(i)]_vars

\* C18: the returned logHash is hash(serialize(result.log)) of the complete
\* returned log, the log with its last event; it depends on nothing but
\* the log: two results with equal logs have equal digests, whatever their
\* config, winner, rounds and finalState are.
C18_DigestBinding ==
  /\ \A i \in Runs :
       Done(i) =>
         /\ result[i].logHash = Sha256Hex(JsonStringify(result[i].log))
         /\ result[i].log = log[i]
  /\ \A i, j \in Runs :
       (Done(i) /\ Done(j) /\ result[i].log = result[j].log) =>
         result[i].logHash = result[j].logHash

\* two calls with different configs have returned the same log of at
\* least one event
C18_Witness ==
  /\ Done(1) /\ Done(2)
  /\ config[1] # config[2]
  /\ Len(result[1].log) >= 1
  /\ result[1].log = result[2].log

(***************************************************************************)
(* C19: the browser engine and the Node engine return the same result     *)
(***************************************************************************)
\* both engines have returned
BothEnginesDone ==
  /\ engine[1] = "node" /\ engine[2] = "web"
  /\ config[1] = config[2]
  /\ Done(1) /\ Done(2)

\* C19: for every template pair, seed and maxRounds, simulateBattle of
\* web/app.js and simulateBattle of src/battleEngine.ts return the same log
\* (hence the same sequence of actors, targets, damages and health values),
\* winner, rounds, finalState and digest.
C19_BrowserMatchesNode ==
  BothEnginesDone =>
    /\ result[1].log = result[2].log
    /\ result[1].winner = result[2].winner
    /\ result[1].rounds = result[2].rounds
    /\ result[1].finalState = result[2].finalState
    /\ result[1].logHash = result[2].logHash

\* the same statement for a browser whose sort makes the comparisons Node's
\* sort makes, and for rosters whose fighters all differ in speed
C19_SameSortMatches ==
  (BothEnginesDone /\ (webSort = hostSort \/ DistinctSpeeds(cloneTeams(tmplA, tmplB))))
    => C19_BrowserMatchesNode

(***************************************************************************)
(* C20: simulations whose steps are interleaved are isolated               *)
(***************************************************************************)
\* the step is a step of call i: it changes the locals of no other call
StepOf(i) ==
  \A j \in Runs \ {i} :
    /\ pc'[j] = pc[j] /\ rng'[j] = rng[j] /\ teams'[j] = teams[j]
    /\ log'[j] = log[j] /\ round'[j] = round[j]
    /\ fighters'[j] = fighters[j] /\ turn'[j] = turn[j]
    /\ result'[j] = result[j]

\* every step is the step of one call, and leaves the templates, the
\* configs and the locals of the other call alone
OwnStepsOnly ==
  /\ \E i \in Runs : StepOf(i)
  /\ tmplA' = tmplA /\ tmplB' = tmplB /\ config' = config

\* the value call i returns when it runs alone
AloneResult(i) == RunAlone(SortOf(i), tmplA, tmplB, config[i])

\* the locals of call i after the step
LocalsNext(i) ==
  [pc |-> pc'[i], rng |-> rng'[i], teams |-> teams'[i], log |-> log'[i],
   round |-> round'[i], fighters |-> fighters'[i], turn |-> turn'[i],
   result |-> result'[i]]

\* a step leaves the locals of call i as they are, or takes them where the
\* step of the call on its own takes them; a returned call stays as it is
StepsAsAlone(i) ==
  \/ LocalsNext(i) = Locals(i)
  \/ /\ pc[i] # "done"
     /\ LocalsNext(i) =
          StepAlone(SortOf(i), tmplA, tmplB, config[i], Locals(i))

\* the step at which call i returns makes its result the value the call
\* returns when it runs alone
ReturnsAloneResult(i) ==
  (pc[i] # "done" /\ pc'[i] = "done") => result'[i] = AloneResult(i)

\* C20: when the steps of two simulations (equal or different seeds, the
\* same template objects) are interleaved in any order, a step changes the
\* generator state, fighters and log of its own simulation only, each
\* simulation takes the steps it takes when run alone, and each returns
\* exactly the result it returns when run alone.
C20_Isolation ==
  [][/\ OwnStepsOnly
     /\ \A i \in Runs : StepsAsAlone(i) /\ ReturnsAloneResult(i)]_vars

\* both simulations are in the middle of a round, each with events logged,
\* on the same templates with different seeds
C20_Witness ==
  /\ pc[1] = "turns" /\ pc[2] = "turns"
  /\ turn[1] >= 2 /\ turn[2] >= 2
  /\ Len(log[1]) >= 1 /\ Len(log[2]) >= 1
  /\ config[1].seed # config[2].seed
  /\ log[1] # log[2]

(***************************************************************************)
(* C21: the round termination check                                        *)
(***************************************************************************)
\* both teams were given at least one fighter
BothNonEmpty == tmplA # <<>> /\ tmplB # <<>>

\* the step after the last turn of a round of call i leaves the loop when a
\* team is fully dead
WipeEndsLoop(i) ==
  (/\ pc[i] = "roundEnd" /\ pc'[i] # "roundEnd"
   /\ allDead(teams[i].teamA) \/ allDead(teams[i].teamB))
    => pc'[i] = "resolve"

\* a round after the first is entered only with a living fighter on each
\* team
RoundNeedsBothTeams(i) ==
  /\ (pc[i] = "round" /\ round[i] >= 1) =>
       ~allDead(teams[i].teamA) /\ ~allDead(teams[i].teamB)
  /\ (pc[i] = "turns" /\ round[i] >= 2) =>
       /\ \E k \in 1..Len(fighters[i]) : fighters[i][k].team = "A"
       /\ \E k \in 1..Len(fighters[i]) : fighters[i][k].team = "B"

\* a call on two non-empty teams that returns before maxRounds rounds
\* returns a final state with a team fully dead; one that returns a living
\* fighter on each team has run maxRounds rounds
EarlyStopMeansWipe(i) ==
  (Done(i) /\ BothNonEmpty) =>
    /\ result[i].rounds < config[i].maxRounds =>
         \/ allDead(result[i].finalState.teamA)
         \/ allDead(result[i].finalState.teamB)
    /\ (/\ ~allDead(result[i].finalState.teamA)
        /\ ~allDead(result[i].finalState.teamB))
         => result[i].rounds = config[i].maxRounds

\* C21: if either team is fully dead at the end of a round, no further
\* round is started; with both teams non-empty at the start, rounds <
\* maxRounds implies that a team is fully dead in the final state, and a
\* living fighter on both teams at the end implies rounds = maxRounds.
C21_RoundTermination ==
  /\ [](\A i \in Runs : RoundNeedsBothTeams(i) /\ EarlyStopMeansWipe(i))
  /\ [][\A i \in Runs : WipeEndsLoop(i)]_vars

\* a call on two non-empty teams has returned after one round of at least
\* two events, short of maxRounds, with team B fully dead
C21_Witness ==
  \E i \in Runs :
    /\ Done(i) /\ BothNonEmpty
    /\ result[i].rounds = 1 /\ config[i].maxRounds = 2
    /\ Len(result[i].log) >= 2
    /\ allDead(result[i].finalState.teamB)

(***************************************************************************)
(* C22: nothing is logged after a team is wiped out                        *)
(***************************************************************************)
\* the team tags
TeamTags == {"A", "B"}

\* ev is an attack of the other team that took a fighter of team x, whose
\* ids are ids, from positive health to 0
KillingBlow(ev, x, ids) ==
  /\ ev.actorTeam = Other(x)
  /\ ev.target.id \in ids
  /\ ev.target.hpBefore > 0
  /\ ev.target.hpAfter = 0

\* the ids of the snapshots of a team
SnapshotIds(snaps) == {snaps[k].id : k \in 1..Len(snaps)}

\* in a state where a team of call i that has fighters is fully dead, the
\* step appends nothing to the log of the call
NoEventAfterWipe(i) ==
  (\E x \in TeamTags :
     Len(TeamOf(teams[i], x)) >= 1 /\ allDead(TeamOf(teams[i], x)))
    => log'[i] = log[i]

\* the step of call i that takes the last living fighter of a team to 0
\* appends the event of that attack
WipeIsLogged(i) ==
  \A x \in TeamTags :
    (~allDead(TeamOf(teams[i], x)) /\ allDead(TeamOf(teams'[i], x))) =>
      /\ Len(log'[i]) = Len(log[i]) + 1
      /\ KillingBlow(LastEvent(log'[i]), x,
                     SnapshotIds(FinalState(teams[i])[IF x = "A" THEN "teamA" ELSE "teamB"]))

\* the final state of team x in the result of call i
FinalTeam(i, x) ==
  IF x = "A" THEN result[i].finalState.teamA ELSE result[i].finalState.teamB

\* the log returned by call i ends with the killing blow against team x
EndsWithKillingBlow(i, x) ==
  /\ Len(result[i].log) >= 1
  /\ KillingBlow(LastEvent(result[i].log), x, SnapshotIds(FinalTeam(i, x)))

\* C22 as stated: once an attack reduces the last living fighter of a team
\* to 0 health, no further event is appended in that round or in any later
\* round, so whenever a team is fully dead in the final state the killing
\* blow is the last event of the log.
C22_KillingBlowLast ==
  \A i \in Runs : \A x \in TeamTags :
    (Done(i) /\ allDead(FinalTeam(i, x))) => EndsWithKillingBlow(i, x)

\* a team with at least one fighter that is fully dead in the final state
\* of call i has the killing blow as the last event of the returned log
WipedTeamEndsLog(i) ==
  \A x \in TeamTags :
    (Done(i) /\ Len(FinalTeam(i, x)) >= 1 /\ allDead(FinalTeam(i, x)))
      => EndsWithKillingBlow(i, x)

\* C22 (amended): once an attack reduces the last living fighter of a team
\* to 0 health, no further event is appended in that round or in any later
\* round, so whenever a team that started with at least one fighter is
\* fully dead in the final state the killing blow is the last event of the
\* log.
C22_NothingAfterWipe ==
  /\ [](\A i \in Runs : WipedTeamEndsLog(i))
  /\ [][\A i \in Runs : NoEventAfterWipe(i) /\ WipeIsLogged(i)]_vars

\* a call has returned with a team fully dead, the killing blow being the
\* last of at least three events, and the loop over the turn order was
\* left at a fighter that came after the one who struck it
C22_Witness ==
  \E i \in Runs : \E x \in TeamTags :
    /\ Done(i)
    /\ Len(FinalTeam(i, x)) >= 1 /\ allDead(FinalTeam(i, x))
    /\ Len(result[i].log) >= 3
    /\ EndsWithKillingBlow(i, x)
    /\ turn[i] <= Len(fighters[i])

(***************************************************************************)
(* C23: at most one team is ever wiped out                                 *)
(***************************************************************************)
\* the fighters of call i exist (line 142 has run) and both teams are
\* fully dead
BothTeamsDead(i) ==
  /\ pc[i] # "idle"
  /\ allDead(teams[i].teamA) /\ allDead(teams[i].teamB)

\* winner resolution of the result of call i took the branch of lines
\* 227-233: not exactly one team is fully dead in the final state
ComparedHealth(i) ==
  allDead(result[i].finalState.teamA) = allDead(result[i].finalState.teamB)

\* C23: when both teams start non-empty (templates with maxHp >= 1), no
\* reachable state has both teams fully dead, and the total-health
\* comparison branch of winner resolution is reached only with a living
\* fighter on both teams.
C23_OneTeamSurvives ==
  \A i \in Runs :
    BothNonEmpty =>
      /\ ~BothTeamsDead(i)
      /\ (Done(i) /\ ComparedHealth(i)) =>
           /\ ~allDead(result[i].finalState.teamA)
           /\ ~allDead(result[i].finalState.teamB)

\* one call on two non-empty teams has returned with team A wiped out and
\* team B down to one living fighter, another has returned a winner found
\* by comparing health
C23_Witness ==
  /\ BothNonEmpty
  /\ \E i \in Runs :
       /\ Done(i) /\ allDead(result[i].finalState.teamA)
       /\ Len(Living(result[i].finalState.teamB)) = 1
       /\ Len(result[i].finalState.teamB) = 2
  /\ \E i \in Runs :
       /\ Done(i) /\ ComparedHealth(i)
       /\ result[i].winner \in {"A", "B"}

(***************************************************************************)
(* C24: each fighter acts at most once per round                           *)
(***************************************************************************)
\* the positions in lg of the events of round r
EventsOfRound(lg, r) == {k \in 1..Len(lg) : lg[k].round = r}

\* no fighter is the actor of two events of one round of lg
OneActionPerRound(lg) ==
  \A j, k \in 1..Len(lg) :
    (/\ j < k
     /\ lg[j].round = lg[k].round
     /\ lg[j].actorTeam = lg[k].actorTeam)
      => lg[j].actor.id # lg[k].actor.id

\* the events of the round call i is in (or has just left) are no more than
\* the turns taken so far, hence no more than the fighters that were alive
\* when the round started; no event bears the number of a round not yet
\* begun
EventsWithinTurns(i) ==
  pc[i] # "idle" =>
    /\ Cardinality(EventsOfRound(log[i], round[i])) <= Len(fighters[i])
    /\ pc[i] = "turns" =>
         Cardinality(EventsOfRound(log[i], round[i])) <= turn[i] - 1
    /\ \A k \in 1..Len(log[i]) : log[i][k].round \in 1..round[i]

\* the turn order of a round of call i, when it is built, is the fighters
\* alive at that moment, each once
TurnOrderIsTheLiving(i) ==
  (pc[i] = "round" /\ pc'[i] = "turns") =>
    /\ Len(fighters'[i]) =
         Len(Living(teams[i].teamA)) + Len(Living(teams[i].teamB))
    /\ \A j, k \in 1..Len(fighters'[i]) :
         j # k => fighters'[i][j] # fighters'[i][k]

\* the event a step of call i appends bears the number of the round under
\* way, its actor is the fighter whose turn it is, and the actor's snapshot
\* shows the health the actor has before and after the step
ActorSnapshot(i) ==
  log'[i] # log[i] =>
    /\ LastEvent(log'[i]).round = round[i]
    /\ LastEvent(log'[i]).actorTeam = fighters[i][turn[i]].team
    /\ LastEvent(log'[i]).actor.id =
         FighterOf(teams[i], fighters[i][turn[i]]).base.id
    /\ LastEvent(log'[i]).actor.hpBefore =
         FighterOf(teams[i], fighters[i][turn[i]]).hp
    /\ LastEvent(log'[i]).actor.hpAfter =
         FighterOf(teams'[i], fighters[i][turn[i]]).hp
    /\ LastEvent(log'[i]).actor.hpBefore = LastEvent(log'[i]).actor.hpAfter
    /\ turn'[i] = turn[i] + 1

\* C24: within one round no fighter is the actor of more than one event,
\* the number of events of a round is at most the number of fighters alive
\* at that round's start, and every event's actor snapshot has hpBefore =
\* hpAfter = the actor's current health.
C24_OneActionPerRound ==
  /\ [](\A i \in Runs : OneActionPerRound(log[i]) /\ EventsWithinTurns(i))
  /\ [][\A i \in Runs : TurnOrderIsTheLiving(i) /\ ActorSnapshot(i)]_vars

\* a call has been through a second round of at least three living
\* fighters that logged one event less than that, one fighter having died
\* before its turn; and in a second round the knight acted after it had
\* lost health
C24_Witness ==
  /\ \E i \in Runs :
       /\ pc[i] \in {"roundEnd", "resolve", "done"} /\ round[i] = 2
       /\ Len(fighters[i]) >= 3
       /\ Cardinality(EventsOfRound(log[i], 2)) = Len(fighters[i]) - 1
  /\ \E i \in Runs : \E k \in EventsOfRound(log[i], 2) :
       /\ log[i][k].actor.id = "knight"
       /\ log[i][k].actor.hpBefore < 4
       /\ log[i][k].actor.hpAfter = log[i][k].actor.hpBefore

(***************************************************************************)
(* C25: the log and the final state agree                                  *)
(***************************************************************************)
\* the positions in lg of the events whose target is the fighter id of
\* team x
TargetEvents(lg, x, id) ==
  {k \in 1..Len(lg) : lg[k].actorTeam # x /\ lg[k].target.id = id}

\* the largest element of a non-empty set of numbers
SetMax(S) == CHOOSE m \in S : \A n \in S : n <= m

\* the health the log lg leaves the fighter id of team x with, before
\* position k of the log
HealthBefore(lg, x, id, maxHp, k) ==
  IF {j \in TargetEvents(lg, x, id) : j < k} = {} THEN maxHp
  ELSE lg[SetMax({j \in TargetEvents(lg, x, id) : j < k})].target.hpAfter

\* the events of lg that target the fighter id of team x form a chain from
\* maxHp down to hp
Replays(lg, x, id, maxHp, hp) ==
  /\ \A k \in TargetEvents(lg, x, id) :
       /\ lg[k].target.hpBefore = HealthBefore(lg, x, id, maxHp, k)
       /\ lg[k].target.hpAfter <= lg[k].target.hpBefore
  /\ hp = HealthBefore(lg, x, id, maxHp, Len(lg) + 1)

\* the returned log of call i replays to the returned final state
ResultReplays(i) ==
  Done(i) =>
    \A x \in TeamTags : \A k \in 1..Len(FinalTeam(i, x)) :
      Replays(result[i].log, x, FinalTeam(i, x)[k].id,
              FinalTeam(i, x)[k].maxHp, FinalTeam(i, x)[k].hp)

\* at every moment of call i the log so far replays to the fighters as
\* they are
LogReplays(i) ==
  pc[i] # "idle" =>
    \A x \in TeamTags : \A k \in 1..Len(TeamOf(teams[i], x)) :
      Replays(log[i], x, TeamOf(teams[i], x)[k].base.id,
              TeamOf(teams[i], x)[k].base.maxHp, TeamOf(teams[i], x)[k].hp)

\* no step of call i under way raises the health of a fighter or makes a
\* dead fighter alive
NoRecovery(i) ==
  (pc[i] # "idle" /\ pc'[i] # "idle") =>
    \A x \in TeamTags : \A k \in 1..Len(TeamOf(teams[i], x)) :
      /\ TeamOf(teams'[i], x)[k].hp <= TeamOf(teams[i], x)[k].hp
      /\ TeamOf(teams'[i], x)[k].alive => TeamOf(teams[i], x)[k].alive

\* C25: for every fighter, the first event targeting it has hpBefore =
\* maxHp, each later event targeting it has hpBefore equal to the hpAfter of
\* the previous event targeting it, and its final-state hp equals the
\* hpAfter of the last event targeting it (or maxHp if it was never
\* targeted); health never increases and a fighter that died is never alive
\* again.
C25_LogReplaysToFinalState ==
  /\ [](\A i \in Runs : ResultReplays(i) /\ LogReplays(i))
  /\ [][\A i \in Runs : NoRecovery(i)]_vars

\* the fighter at position k of team x in the result of call i was the
\* target of at least n events
TargetedTimes(i, x, k, n) ==
  Cardinality(TargetEvents(result[i].log, x, FinalTeam(i, x)[k].id)) >= n

\* a call has returned with a fighter that was targeted at least twice, a
\* fighter that was targeted and survived, and a fighter that was never
\* targeted
C25_Witness ==
  \E i \in Runs :
    /\ Done(i)
    /\ \E x \in TeamTags : \E k \in 1..Len(FinalTeam(i, x)) :
         TargetedTimes(i, x, k, 2)
    /\ \E x \in TeamTags : \E k \in 1..Len(FinalTeam(i, x)) :
         TargetedTimes(i, x, k, 1) /\ FinalTeam(i, x)[k].hp >= 1
    /\ \E x \in TeamTags : \E k \in 1..Len(FinalTeam(i, x)) :
         /\ ~TargetedTimes(i, x, k, 1)
         /\ FinalTeam(i, x)[k].hp = FinalTeam(i, x)[k].maxHp

(***************************************************************************)
(* C26: every round makes progress                                         *)
(***************************************************************************)
RECURSIVE SumMaxHpFrom(_, _)
\* the sum of maxHp of the templates of a roster from position k on
SumMaxHpFrom(roster, k) ==
  IF k > Len(roster) THEN 0
  ELSE roster[k].maxHp + SumMaxHpFrom(roster, k + 1)

\* the sum of all fighters' maxHp
TotalMaxHp == SumMaxHpFrom(tmplA, 1) + SumMaxHpFrom(tmplB, 1)

\* the combined remaining health of all fighters of tm
TotalHp(tm) == SumHp(tm.teamA) + SumHp(tm.teamB)

RECURSIVE HealthLostFrom(_, _, _)
\* the health the targets of the events of round r of lg lost, from
\* position k of the log on
HealthLostFrom(lg, r, k) ==
  IF k > Len(lg) THEN 0
  ELSE (IF lg[k].round = r
        THEN lg[k].target.hpBefore - lg[k].target.hpAfter ELSE 0)
       + HealthLostFrom(lg, r, k + 1)

\* the round of call i started with a living fighter on both teams: its
\* turn order has an entry of each team
RoundOfBothTeams(i) ==
  /\ \E k \in 1..Len(fighters[i]) : fighters[i][k].team = "A"
  /\ \E k \in 1..Len(fighters[i]) : fighters[i][k].team = "B"

\* at the end of a round of call i that started with a living fighter on
\* both teams the round has logged an event and taken at least 1 health,
\* and after r such rounds at most TotalMaxHp - r health is left
RoundProgress(i) ==
  (pc[i] = "roundEnd" /\ RoundOfBothTeams(i)) =>
    /\ \E k \in 1..Len(log[i]) : log[i][k].round = round[i]
    /\ HealthLostFrom(log[i], round[i], 1) >= 1
    /\ TotalHp(teams[i]) <= TotalMaxHp - round[i]

\* the steps of a round of call i take from the combined health what the
\* events they append say, and the first turn of a round that starts with a
\* living fighter on both teams is an attack
HealthGoesToTheLog(i) ==
  /\ (pc[i] = "turns" /\ pc'[i] \in {"turns", "roundEnd"}) =>
       TotalHp(teams'[i]) =
         TotalHp(teams[i]) - (HealthLostFrom(log'[i], round[i], 1)
                              - HealthLostFrom(log[i], round[i], 1))
  /\ (pc[i] = "turns" /\ turn[i] = 1 /\ RoundOfBothTeams(i)
      /\ pc'[i] \in {"turns", "roundEnd"}) =>
       /\ Len(log'[i]) = Len(log[i]) + 1
       /\ TotalHp(teams'[i]) <= TotalHp(teams[i]) - 1

\* a call with maxRounds at least the sum of all fighters' maxHp returns
\* with a team fully dead, and on two non-empty rosters before maxRounds
\* rounds
FoughtToTheEnd(i) ==
  (Done(i) /\ config[i].maxRounds >= TotalMaxHp) =>
    /\ \/ allDead(result[i].finalState.teamA)
       \/ allDead(result[i].finalState.teamB)
    /\ BothNonEmpty => result[i].rounds < config[i].maxRounds

\* C26: every round that starts with a living fighter on both teams appends
\* at least one event and lowers the combined remaining health of all
\* fighters by at least 1; consequently, if maxRounds is at least the sum of
\* all fighters' maxHp, the simulation ends with one team fully dead rather
\* than by exhausting maxRounds.
C26_Progress ==
  /\ [](\A i \in Runs : RoundProgress(i) /\ FoughtToTheEnd(i))
  /\ [][\A i \in Runs : HealthGoesToTheLog(i)]_vars

\* a call on two non-empty rosters with maxRounds equal to the sum of all
\* fighters' maxHp has returned after at least three rounds with a team
\* fully dead
C26_Witness ==
  \E i \in Runs :
    /\ Done(i) /\ BothNonEmpty
    /\ config[i].maxRounds = TotalMaxHp
    /\ result[i].rounds >= 3
    /\ result[i].rounds < config[i].maxRounds
    /\ \/ allDead(result[i].finalState.teamA)
       \/ allDead(result[i].finalState.teamB)

====
